---------------------------- MODULE Spec2Model ----------------------------
(***************************************************************************)
(* Model of the review workflow of app/agents/orchestrator.py: the        *)
(* LangGraph state machine of ReviewOrchestrator (five nodes, three       *)
(* routers), the bounded fan-out of the context node, and the pure        *)
(* helpers of app/agents/reviewer.py that the workflow relies on.         *)
(*                                                                         *)
(* A nullable value (Python None or a dict) is a sequence of length 0 or  *)
(* 1: None is <<>> and a value v is <<v>>.  File paths are the indices of  *)
(* the files in the payload (a payload names every file once).            *)
(***************************************************************************)
EXTENDS Integers, Sequences, FiniteSets, TLC

VARIABLES
    state,        \* the ReviewState record threaded through the graph
    pc,           \* position of the run in the compiled graph
    tasks,        \* context node: task of each change (gather's coroutines)
    semaphore,    \* context node: the asyncio.Semaphore, None before creation
    reviewCalls,  \* history: context argument of every reviewer.review call
    ctxCalls,     \* history: number of get_context calls per file path
    writes,       \* history: store_review calls submitted by store_learning
    analysisCalls, \* history: number of per-file Analysis calls of analyze_pr
    result,       \* value returned by review_pr, None until it returns
    rt_in,        \* router table: the State Record handed to a router
    rt_out,       \* router table: the decisions computed for rt_in
    rv_comments,  \* assessment: the final comment list
    rv_overall,   \* assessment: result of _generate_overall_assessment
    rw_raw,       \* reviewer: all_comments before deduplication
    rw_unique,    \* reviewer: result of _deduplicate_comments, None before
    rw_again,     \* reviewer: _deduplicate_comments applied to rw_unique
    rw_result,    \* reviewer: the Review Result assembled by review()
    mc_contexts,  \* merge: the per-file contexts handed to _merge_contexts
    mc_merged,    \* merge: the Merged Context, None before
    an_files,     \* analyzer: the file entries of the payload
    an_changes,   \* analyzer: the Changes built so far by analyze_pr
    an_calls,     \* analyzer: history of the Analysis calls made
    an_result,    \* analyzer: what analyze_pr did, None before
    an_update,    \* analyzer: the partial update of the Analyze node
    an_inflight,  \* analyzer: the model calls awaited at this moment
    df_diff,      \* decomposer: the diff text, as its lines
    df_hunks,     \* decomposer: result of parse_diff_hunks, None before
    lg_path,      \* language: the path handed to _detect_language
    lg_language,  \* language: result of _detect_language, None before
    tr_changes,   \* two runs: number of Changes of each run's analysis
    tr_pc,        \* two runs: position of each run around its context node
    tr_tasks,     \* two runs: the tasks of each run's gather
    tr_semaphore  \* two runs: the semaphores created, None before creation

wfVars == <<state, pc, tasks, semaphore, reviewCalls, ctxCalls, writes,
           analysisCalls, result>>
rtVars == <<rt_in, rt_out>>
rvVars == <<rv_comments, rv_overall>>
rwVars == <<rw_raw, rw_unique, rw_again, rw_result>>
mcVars == <<mc_contexts, mc_merged>>
anVars == <<an_files, an_changes, an_calls, an_result, an_update, an_inflight>>
dfVars == <<df_diff, df_hunks>>
lgVars == <<lg_path, lg_language>>
trVars == <<tr_changes, tr_pc, tr_tasks, tr_semaphore>>
pureVars == <<rtVars, rvVars, rwVars, mcVars, anVars, dfVars, lgVars, trVars>>
vars == <<state, pc, tasks, semaphore, reviewCalls, ctxCalls, writes,
          analysisCalls, result, rt_in, rt_out, rv_comments, rv_overall,
          rw_raw, rw_unique, rw_again, rw_result, mc_contexts, mc_merged,
          an_files, an_changes, an_calls, an_result, an_update, an_inflight,
          df_diff, df_hunks, lg_path, lg_language, tr_changes, tr_pc,
          tr_tasks, tr_semaphore>>

-----------------------------------------------------------------------------
(* Bounds *)

MaxFiles == 4
MaxComments == 4

(* Program constants *)

SemaphoreSlots == 3
WarningLimit == 3

None == <<>>
Some(v) == <<v>>
Truthy(opt) == opt # <<>>

Min(a, b) == IF a < b THEN a ELSE b

Severities == {"critical", "warning", "suggestion"}

-----------------------------------------------------------------------------
(* Payloads: 0..MaxFiles files, each with an empty or a non-empty patch *)

Patches == {"", "@@"}

FileEntry(i, patch) == [filename |-> i, patch |-> patch]

Payloads ==
    UNION { { [number |-> 7,
               files  |-> [i \in 1..n |-> FileEntry(i, p[i])]] :
                 p \in [1..n -> Patches] } : n \in 0..MaxFiles }

-----------------------------------------------------------------------------
(* reviewer.py: severity counts and recommendation policy *)

CountSeverity(comments, sev) ==
    Cardinality({i \in 1..Len(comments) : comments[i].severity = sev})

TooManyWarnings_ge(warning_count) == warning_count >= WarningLimit

TooManyWarnings(warning_count) == warning_count > WarningLimit

Recommendation(comments) ==
    LET critical_count == CountSeverity(comments, "critical")
        warning_count  == CountSeverity(comments, "warning")
    IN  IF critical_count > 0 THEN "request_changes"
        ELSE IF TooManyWarnings(warning_count) THEN "request_changes"
        ELSE IF warning_count > 0 THEN "comment"
        ELSE "approve"

Assessment(recommendation) ==
    IF recommendation = "approve" THEN "looks_good"
    ELSE IF recommendation = "request_changes" THEN "should_be_addressed"
    ELSE "no_blocking_issues"

generate_overall_assessment(comments) ==
    [assessment     |-> Assessment(Recommendation(comments)),
     recommendation |-> Recommendation(comments),
     summary        |-> "summary"]

Stats(comments) ==
    [critical   |-> CountSeverity(comments, "critical"),
     warning    |-> CountSeverity(comments, "warning"),
     suggestion |-> CountSeverity(comments, "suggestion"),
     total      |-> Len(comments)]

ReviewResultOf(pr_number, comments) ==
    LET overall == generate_overall_assessment(comments)
    IN  [pr_number               |-> pr_number,
         overall_assessment      |-> overall.assessment,
         approval_recommendation |-> overall.recommendation,
         comments                |-> comments,
         summary                 |-> <<overall.summary>>,
         stats                   |-> Stats(comments)]

-----------------------------------------------------------------------------
(* orchestrator.py: the State Record and LangGraph's merge of a node's     *)
(* partial update: errors are added (operator.add), every other field that *)
(* the update names is overwritten, an absent field keeps its value.       *)

initial_state(pr_data) ==
    [pr_data     |-> pr_data,
     analysis    |-> None,
     context     |-> <<>>,
     review      |-> None,
     errors      |-> <<>>,
     status      |-> "started",
     retry_count |-> 0]

Get(update, key, default) ==
    IF key \in DOMAIN update THEN update[key] ELSE default

ApplyUpdate_resets_errors(s, update) ==
    [pr_data     |-> Get(update, "pr_data", s.pr_data),
     analysis    |-> Get(update, "analysis", s.analysis),
     context     |-> Get(update, "context", s.context),
     review      |-> Get(update, "review", s.review),
     errors      |-> Get(update, "errors", <<>>),
     status      |-> Get(update, "status", s.status),
     retry_count |-> Get(update, "retry_count", s.retry_count)]

ApplyUpdate_resets_absent(s, update) ==
    [pr_data     |-> s.pr_data,
     analysis    |-> Get(update, "analysis", None),
     context     |-> Get(update, "context", <<>>),
     review      |-> Get(update, "review", None),
     errors      |-> s.errors \o Get(update, "errors", <<>>),
     status      |-> Get(update, "status", s.status),
     retry_count |-> s.retry_count]

ApplyUpdate(s, update) ==
    [pr_data     |-> Get(update, "pr_data", s.pr_data),
     analysis    |-> Get(update, "analysis", s.analysis),
     context     |-> Get(update, "context", s.context),
     review      |-> Get(update, "review", s.review),
     errors      |-> s.errors \o Get(update, "errors", <<>>),
     status      |-> Get(update, "status", s.status),
     retry_count |-> Get(update, "retry_count", s.retry_count)]

-----------------------------------------------------------------------------
(* analyzer.py, as the workflow sees it: analyze_pr returns an Analysis    *)
(* Result with one Change per file entry, or raises.  It can raise only in *)
(* the aggregate summary call, which is made only when some file has an    *)
(* analysis, hence only for a payload with at least one file.  The file    *)
(* entries of a workflow payload are source files, none of them classified *)
(* as skipped: analyze_pr makes one Analysis call for each of them.        *)

ChangeOf(file) == [file_path |-> file.filename, diff |-> file.patch]

AnalysisOf(pr_data) ==
    [pr_number           |-> pr_data.number,
     total_files_changed |-> Len(pr_data.files),
     changes             |-> [i \in 1..Len(pr_data.files) |->
                                 ChangeOf(pr_data.files[i])]]

AnalyzeOutcomes_always_summarizes(pr_data) == {"returns", "raises"}

AnalyzeOutcomes(pr_data) ==
    {"returns"} \cup (IF Len(pr_data.files) > 0 THEN {"raises"} ELSE {})

analyze_update_keeps_status(s, outcome) ==
    IF outcome = "returns"
    THEN [analysis |-> Some(AnalysisOf(s.pr_data)), status |-> "analyzed"]
    ELSE [errors |-> <<"Analysis failed">>]

analyze_update(s, outcome) ==
    IF outcome = "returns"
    THEN [analysis |-> Some(AnalysisOf(s.pr_data)), status |-> "analyzed"]
    ELSE [errors |-> <<"Analysis failed">>, status |-> "error"]

-----------------------------------------------------------------------------
(* orchestrator.py: routers *)

should_continue_after_analysis(s) ==
    IF s.status = "error" \/ ~Truthy(s.analysis) THEN "error" ELSE "continue"

should_continue_after_context_needs_context(s) ==
    IF s.status = "error" \/ DOMAIN s.context = {} THEN "error" ELSE "continue"

should_continue_after_context(s) ==
    IF s.status = "error" THEN "error" ELSE "continue"

should_continue_after_review_reads_errors(s) ==
    IF s.status = "error" \/ ~Truthy(s.review) \/ s.errors # <<>>
    THEN "error" ELSE "continue"

should_continue_after_review(s) ==
    IF s.status = "error" \/ ~Truthy(s.review) THEN "error" ELSE "continue"

-----------------------------------------------------------------------------
(* orchestrator.py: context node *)

Item(prefix, rest) == [content |-> <<prefix, rest>>]

Prefix100(content) == content[1]

RetrievedContext(path) ==
    [similar_reviews  |-> <<Item(path, 0)>>,
     coding_standards |-> <<Item(0, 0)>>,
     documentation    |-> <<>>,
     summary          |-> "relevant"]

FailedContext ==
    [similar_reviews  |-> <<>>,
     coding_standards |-> <<>>,
     documentation    |-> <<>>,
     summary          |-> "Context retrieval failed."]

Resolved == {"returned", "placeholder"}

get_file_context_reraise(outcome) ==
    IF outcome = "returns" THEN "returned" ELSE "raised"

get_file_context_retries(outcome) ==
    IF outcome = "raises" THEN "new" ELSE "returned"

get_file_context(outcome) ==
    IF outcome = "returns" THEN "returned" ELSE "placeholder"

NewSemaphore(n) == [value |-> n, waiters |-> <<>>]

locked_never(sem) == FALSE

locked(sem) == sem.value = 0 \/ sem.waiters # <<>>

HoldsSlot(t) == {i \in DOMAIN t : t[i] = "inflight"}

release_no_wakeup(sem) == [sem EXCEPT !.value = @ + 1]

release(sem) ==
    IF sem.waiters # <<>>
    THEN [sem EXCEPT !.waiters = Tail(@)]
    ELSE [sem EXCEPT !.value = @ + 1]

gather_first_completed(t) == \E i \in DOMAIN t : t[i] \in Resolved \cup {"raised"}

gather_ready(t) ==
    \/ \A i \in DOMAIN t : t[i] \in Resolved
    \/ \E i \in DOMAIN t : t[i] = "raised"

context_dict(changes, t) ==
    [p \in {changes[i].file_path : i \in {j \in DOMAIN t : t[j] \in Resolved}} |->
        LET i == CHOOSE j \in DOMAIN t : changes[j].file_path = p
        IN  IF t[i] = "returned" THEN RetrievedContext(p) ELSE FailedContext]

gather_update(changes, t) ==
    IF \E i \in DOMAIN t : t[i] = "raised"
    THEN [errors |-> <<"Context retrieval failed">>, status |-> "error"]
    ELSE [context |-> context_dict(changes, t), status |-> "context_retrieved"]

-----------------------------------------------------------------------------
(* orchestrator.py: _merge_contexts.  A dict is iterated in insertion      *)
(* order, which for the context mapping is the order of the changes, that  *)
(* is ascending file path.                                                 *)

RECURSIVE KeysInOrder(_)
KeysInOrder(keys) ==
    IF keys = {} THEN <<>>
    ELSE LET k == CHOOSE x \in keys : \A y \in keys : x <= y
         IN  <<k>> \o KeysInOrder(keys \ {k})

RECURSIVE Extend(_, _, _)
Extend(contexts, field, keys) ==
    IF keys = <<>> THEN <<>>
    ELSE contexts[Head(keys)][field] \o Extend(contexts, field, Tail(keys))

RECURSIVE dedupe_from(_, _)
dedupe_from(items, seen) ==
    IF items = <<>> THEN <<>>
    ELSE LET content == Prefix100(Head(items).content)
         IN  IF content \notin seen
             THEN <<Head(items)>> \o dedupe_from(Tail(items), seen \cup {content})
             ELSE dedupe_from(Tail(items), seen)

dedupe(items) == dedupe_from(items, {})

Take(items, n) == SubSeq(items, 1, Min(n, Len(items)))

Summaries(contexts, keys) ==
    LET kept == SelectSeq(keys, LAMBDA k : contexts[k].summary # "")
    IN  [i \in 1..Len(kept) |-> <<kept[i], contexts[kept[i]].summary>>]

NoContext == <<<<0, "No context available.">>>>

merge_contexts_cap_first(contexts) ==
    IF DOMAIN contexts = {}
    THEN [similar_reviews  |-> <<>>,
          coding_standards |-> <<>>,
          documentation    |-> <<>>,
          summary          |-> NoContext]
    ELSE LET keys == KeysInOrder(DOMAIN contexts)
             summaries == Summaries(contexts, keys)
         IN  [similar_reviews  |-> dedupe(Take(Extend(contexts, "similar_reviews", keys), 10)),
              coding_standards |-> dedupe(Take(Extend(contexts, "coding_standards", keys), 5)),
              documentation    |-> dedupe(Take(Extend(contexts, "documentation", keys), 5)),
              summary          |-> IF summaries # <<>> THEN summaries ELSE NoContext]

merge_contexts(contexts) ==
    IF DOMAIN contexts = {}
    THEN [similar_reviews  |-> <<>>,
          coding_standards |-> <<>>,
          documentation    |-> <<>>,
          summary          |-> NoContext]
    ELSE LET keys == KeysInOrder(DOMAIN contexts)
             summaries == Summaries(contexts, keys)
         IN  [similar_reviews  |-> Take(dedupe(Extend(contexts, "similar_reviews", keys)), 10),
              coding_standards |-> Take(dedupe(Extend(contexts, "coding_standards", keys)), 5),
              documentation    |-> Take(dedupe(Extend(contexts, "documentation", keys)), 5),
              summary          |-> IF summaries # <<>> THEN summaries ELSE NoContext]

ContextUnavailable ==
    [similar_reviews  |-> <<>>,
     coding_standards |-> <<>>,
     documentation    |-> <<>>,
     summary          |-> <<<<0, "Context unavailable">>>>]

-----------------------------------------------------------------------------
(* reviewer.py, as the workflow sees it: review(analysis, context) returns *)
(* a Review Result or raises.  Only changes with a non-empty diff are      *)
(* reviewed, so every comment carries the path of such a change.           *)

ReviewedPaths(analysis) ==
    {analysis.changes[i].file_path :
        i \in {j \in 1..Len(analysis.changes) : analysis.changes[j].diff # ""}}

CommentsOn(analysis, paths, sev) ==
    LET hit == SelectSeq(analysis.changes, LAMBDA c : c.file_path \in paths)
    IN  [i \in 1..Len(hit) |-> [file_path |-> hit[i].file_path, severity |-> sev]]

ReviewsOf(analysis) ==
    {ReviewResultOf(analysis.pr_number, CommentsOn(analysis, paths, sev)) :
        paths \in SUBSET ReviewedPaths(analysis), sev \in Severities}

(* review absorbs every failure of its model calls; it raises only while   *)
(* handling the comments of a reviewed change (their deduplication), hence *)
(* only when some change has a non-empty diff.                             *)
ReviewOutcomes(analysis) ==
    {Some(r) : r \in ReviewsOf(analysis)}
        \cup (IF ReviewedPaths(analysis) # {} THEN {None} ELSE {})

-----------------------------------------------------------------------------
(* orchestrator.py: review node, store_learning node, error node *)

review_update_keeps_status(outcome) ==
    IF Truthy(outcome)
    THEN [review |-> outcome, status |-> "reviewed"]
    ELSE [errors |-> <<"Review generation failed">>]

review_update(outcome) ==
    IF Truthy(outcome)
    THEN [review |-> outcome, status |-> "reviewed"]
    ELSE [errors |-> <<"Review generation failed">>, status |-> "error"]

(* what _store_learning_node returns: "raised" when a write raised         *)
store_learning_update_escalates(outcome) ==
    IF outcome = "raised"
    THEN [errors |-> <<"Learning storage failed">>, status |-> "error"]
    ELSE [status |-> "completed"]

store_learning_update(outcome) == [status |-> "completed"]

(* the number of writes the loop submits when the k-th due write raises    *)
(* (k = 0: none raises)                                                    *)
writes_submitted_despite_failure(due, k) == Len(due)

writes_submitted(due, k) == IF k = 0 THEN Len(due) ELSE k

FileComments(review, change) ==
    SelectSeq(review.comments, LAMBDA c : c.file_path = change.file_path)

DueWrites(analysis, review) ==
    LET due == SelectSeq(analysis.changes,
                         LAMBDA ch : FileComments(review, ch) # <<>>)
    IN  [i \in 1..Len(due) |->
            [file_path |-> due[i].file_path,
             feedback  |-> FileComments(review, due[i])]]

(* The summary of the fallback review is a text of lines: a heading, one   *)
(* line "- e" per error string e, and a closing line.                      *)
fallback_review_unknown_error(s) ==
    [pr_number               |-> s.pr_data.number,
     overall_assessment      |-> "could_not_be_completed",
     approval_recommendation |-> "comment",
     comments                |-> <<>>,
     summary                 |-> <<<<"encountered errors">>,
                                   <<"- ", "Unknown error occurred">>,
                                   <<"request a manual review">>>>,
     stats                   |-> [critical |-> 0, warning |-> 0,
                                  suggestion |-> 0, total |-> 0]]

fallback_review(s) ==
    [pr_number               |-> s.pr_data.number,
     overall_assessment      |-> "could_not_be_completed",
     approval_recommendation |-> "comment",
     comments                |-> <<>>,
     summary                 |-> <<<<"encountered errors">>>> \o
                                 [i \in 1..Len(s.errors) |-> <<"- ", s.errors[i]>>] \o
                                 <<<<"request a manual review">>>>,
     stats                   |-> [critical |-> 0, warning |-> 0,
                                  suggestion |-> 0, total |-> 0]]

can_attempt_partial_on_error(s) == s.status = "error"

can_attempt_partial(s) ==
    Truthy(s.analysis) /\ s.status = "context_retrieved"

error_update_no_review(s, outcome) ==
    IF can_attempt_partial(s) /\ Truthy(outcome)
    THEN [review |-> outcome, status |-> "completed_with_errors"]
    ELSE [status |-> "failed"]

error_update_appends(s, outcome) ==
    IF can_attempt_partial(s) /\ Truthy(outcome)
    THEN [review |-> outcome, status |-> "completed_with_errors"]
    ELSE [review |-> Some(fallback_review(s)), status |-> "failed",
          errors |-> <<"Review could not be completed">>]

error_update(s, outcome) ==
    IF can_attempt_partial(s) /\ Truthy(outcome)
    THEN [review |-> outcome, status |-> "completed_with_errors"]
    ELSE [review |-> Some(fallback_review(s)), status |-> "failed"]

-----------------------------------------------------------------------------
(* The run: review_pr builds the initial state and invokes the graph, whose *)
(* entry point is the analyze node.                                        *)

ReviewerIdle ==
    /\ rw_raw = <<>>
    /\ rw_unique = None
    /\ rw_again = None
    /\ rw_result = None

MergeIdle ==
    /\ mc_contexts = <<>>
    /\ mc_merged = None

AnalyzerIdle ==
    /\ an_files = <<>>
    /\ an_changes = <<>>
    /\ an_calls = <<>>
    /\ an_result = None
    /\ an_update = None
    /\ an_inflight = {}

LanguageIdle ==
    /\ lg_path = <<>>
    /\ lg_language = None

RunsIdle ==
    /\ tr_changes = <<>>
    /\ tr_pc = <<>>
    /\ tr_tasks = <<>>
    /\ tr_semaphore = <<>>

DiffIdle ==
    /\ df_diff = <<>>
    /\ df_hunks = None

TablesIdle ==
    /\ rt_in = None
    /\ rt_out = None
    /\ rv_comments = <<>>
    /\ rv_overall = None

Idle ==
    /\ TablesIdle
    /\ ReviewerIdle
    /\ MergeIdle
    /\ AnalyzerIdle
    /\ DiffIdle
    /\ LanguageIdle
    /\ RunsIdle

InitOf(payloads) ==
    /\ \E pr_data \in payloads :
          /\ state = initial_state(pr_data)
          /\ ctxCalls = [i \in 1..Len(pr_data.files) |-> 0]
    /\ pc = "analyze"
    /\ tasks = <<>>
    /\ semaphore = None
    /\ reviewCalls = <<>>
    /\ writes = <<>>
    /\ analysisCalls = 0
    /\ result = None
    /\ Idle

Init == InitOf(Payloads)

Changes == state.analysis[1].changes

analyze_node ==
    /\ pc = "analyze"
    /\ \E outcome \in AnalyzeOutcomes(state.pr_data) :
          state' = ApplyUpdate(state, analyze_update(state, outcome))
    /\ analysisCalls' = Len(state.pr_data.files)
    /\ pc' = "route_analysis"
    /\ UNCHANGED <<tasks, semaphore, reviewCalls, ctxCalls, writes, result>>
    /\ UNCHANGED pureVars

route_after_analysis ==
    /\ pc = "route_analysis"
    /\ pc' = IF should_continue_after_analysis(state) = "continue"
             THEN "get_context" ELSE "handle_error"
    /\ UNCHANGED <<state, tasks, semaphore, reviewCalls, ctxCalls, writes, result>>
    /\ UNCHANGED <<analysisCalls, pureVars>>

(* _context_node up to the gather: no changes, or one coroutine per change *)
context_node ==
    /\ pc = "get_context"
    /\ IF Changes = <<>>
       THEN /\ state' = ApplyUpdate(state, [context |-> <<>>,
                                            status  |-> "context_retrieved"])
            /\ pc' = "route_context"
            /\ UNCHANGED <<tasks, semaphore>>
       ELSE /\ semaphore' = Some(NewSemaphore(SemaphoreSlots))
            /\ tasks' = [i \in 1..Len(Changes) |-> "new"]
            /\ pc' = "gather"
            /\ UNCHANGED state
    /\ UNCHANGED <<reviewCalls, ctxCalls, writes, result>>
    /\ UNCHANGED <<analysisCalls, pureVars>>

(* bounded_get_context, first step: "async with semaphore" either takes a  *)
(* slot and starts the call, or queues the coroutine behind the waiters.   *)
bounded_get_context(i) ==
    /\ tasks[i] = "new"
    /\ \A j \in 1..(i - 1) : tasks[j] # "new"
    /\ IF locked(semaphore[1])
       THEN /\ tasks' = [tasks EXCEPT ![i] = "waiting"]
            /\ semaphore' = Some([semaphore[1] EXCEPT !.waiters = Append(@, i)])
            /\ UNCHANGED ctxCalls
       ELSE /\ tasks' = [tasks EXCEPT ![i] = "inflight"]
            /\ semaphore' = Some([semaphore[1] EXCEPT !.value = @ - 1])
            /\ ctxCalls' = [ctxCalls EXCEPT ![i] = @ + 1]
    /\ UNCHANGED <<state, pc, reviewCalls, writes, result>>
    /\ UNCHANGED <<analysisCalls, pureVars>>

(* The call of coroutine i returns or raises; get_file_context turns it    *)
(* into a result, and leaving "async with" releases the slot, which wakes  *)
(* the first waiter: that coroutine then holds the slot and makes its call *)
call_resolves(i, outcome) ==
    /\ tasks[i] = "inflight"
    /\ LET sem  == semaphore[1]
           next == IF sem.waiters # <<>> THEN {Head(sem.waiters)} ELSE {}
           sem2 == release(sem)
           woken == {j \in next : Len(sem2.waiters) < Len(sem.waiters)}
       IN  /\ tasks' = [j \in DOMAIN tasks |->
                           IF j = i THEN get_file_context(outcome)
                           ELSE IF j \in woken THEN "inflight"
                           ELSE tasks[j]]
           /\ semaphore' = Some(sem2)
           /\ ctxCalls' = [j \in DOMAIN ctxCalls |->
                              IF j \in woken THEN ctxCalls[j] + 1 ELSE ctxCalls[j]]
    /\ UNCHANGED <<state, pc, reviewCalls, writes, result>>
    /\ UNCHANGED <<analysisCalls, pureVars>>

call_returns(i) == call_resolves(i, "returns")

call_fails(i) == call_resolves(i, "raises")

(* asyncio.gather and the rest of _context_node *)
gather ==
    /\ pc = "gather"
    /\ gather_ready(tasks)
    /\ state' = ApplyUpdate(state, gather_update(Changes, tasks))
    /\ pc' = "route_context"
    /\ UNCHANGED <<tasks, semaphore, reviewCalls, ctxCalls, writes, result>>
    /\ UNCHANGED <<analysisCalls, pureVars>>

route_after_context ==
    /\ pc = "route_context"
    /\ pc' = IF should_continue_after_context(state) = "continue"
             THEN "generate_review" ELSE "handle_error"
    /\ UNCHANGED <<state, tasks, semaphore, reviewCalls, ctxCalls, writes, result>>
    /\ UNCHANGED <<analysisCalls, pureVars>>

ReviewCallOutcomes(s) ==
    IF Truthy(s.analysis) THEN ReviewOutcomes(s.analysis[1]) ELSE {None}

review_node ==
    /\ pc = "generate_review"
    /\ reviewCalls' = Append(reviewCalls, merge_contexts(state.context))
    /\ \E outcome \in ReviewCallOutcomes(state) :
          state' = ApplyUpdate(state, review_update(outcome))
    /\ pc' = "route_review"
    /\ UNCHANGED <<tasks, semaphore, ctxCalls, writes, result>>
    /\ UNCHANGED <<analysisCalls, pureVars>>

route_after_review ==
    /\ pc = "route_review"
    /\ pc' = IF should_continue_after_review(state) = "continue"
             THEN "store_learning" ELSE "handle_error"
    /\ UNCHANGED <<state, tasks, semaphore, reviewCalls, ctxCalls, writes, result>>
    /\ UNCHANGED <<analysisCalls, pureVars>>

(* _store_learning_node: the writes are submitted in change order; a write *)
(* that raises (the k-th, k = 0 for none) ends the loop; either way the    *)
(* node returns status completed.                                          *)
store_learning_node ==
    /\ pc = "store_learning"
    /\ LET due == DueWrites(state.analysis[1], state.review[1])
       IN  \E k \in 0..Len(due) :
              /\ writes' = [i \in 1..writes_submitted(due, k) |->
                            [file_path |-> due[i].file_path,
                             feedback  |-> due[i].feedback,
                             outcome   |-> IF i = k THEN "raised" ELSE "ack"]]
              /\ state' = ApplyUpdate(state, store_learning_update(
                                          IF k = 0 THEN "returned" ELSE "raised"))
    /\ pc' = "END"
    /\ UNCHANGED <<tasks, semaphore, reviewCalls, ctxCalls, result>>
    /\ UNCHANGED <<analysisCalls, pureVars>>

(* _error_node: one simplified review when can_attempt_partial, else (or   *)
(* when that review raises) the fallback review.                           *)
error_node ==
    /\ pc = "handle_error"
    /\ IF can_attempt_partial(state)
       THEN /\ reviewCalls' = Append(reviewCalls, ContextUnavailable)
            /\ \E outcome \in ReviewCallOutcomes(state) :
                  state' = ApplyUpdate(state, error_update(state, outcome))
       ELSE /\ UNCHANGED reviewCalls
            /\ state' = ApplyUpdate(state, error_update(state, None))
    /\ pc' = "END"
    /\ UNCHANGED <<tasks, semaphore, ctxCalls, writes, result>>
    /\ UNCHANGED <<analysisCalls, pureVars>>

(* review_pr returns final_state["review"] *)
review_pr ==
    /\ pc = "END"
    /\ result' = state.review
    /\ pc' = "returned"
    /\ UNCHANGED <<state, tasks, semaphore, reviewCalls, ctxCalls, writes>>
    /\ UNCHANGED <<analysisCalls, pureVars>>

Next ==
    \/ analyze_node
    \/ route_after_analysis
    \/ context_node
    \/ \E i \in DOMAIN tasks : bounded_get_context(i)
    \/ \E i \in DOMAIN tasks : call_returns(i)
    \/ \E i \in DOMAIN tasks : call_fails(i)
    \/ gather
    \/ route_after_context
    \/ review_node
    \/ route_after_review
    \/ store_learning_node
    \/ error_node
    \/ review_pr

Spec == Init /\ [][Next]_vars

(* Every step of a run is taken by the event loop as soon as it is ready,  *)
(* and every capability call in flight eventually returns or raises.       *)
(* Fair runs: the event loop takes every step that is ready, and every     *)
(* capability call in flight eventually returns or raises, so a run never  *)
(* stops while a step is possible.  The patches of a payload do not        *)
(* influence the scheduling; the fair runs are those of the payloads in    *)
(* which at most the first file has a patch.                               *)
LivePayloads ==
    {p \in Payloads : \A i \in 2..Len(p.files) : p.files[i].patch = ""}

InitLive == InitOf(LivePayloads)

FairSpec == InitLive /\ [][Next]_vars /\ WF_vars(Next)

-----------------------------------------------------------------------------
(* Properties of the run *)

TerminalStatuses == {"completed", "completed_with_errors", "failed"}

ReviewResultFields ==
    {"pr_number", "overall_assessment", "approval_recommendation",
     "comments", "summary", "stats"}

IsReviewResult(opt) ==
    /\ Truthy(opt)
    /\ DOMAIN opt[1] = ReviewResultFields
    /\ opt[1].approval_recommendation \in {"approve", "request_changes", "comment"}

IsFallback(opt) ==
    /\ Truthy(opt)
    /\ opt[1].overall_assessment = "could_not_be_completed"

Failed(msg) == \E k \in 1..Len(state.errors) : state.errors[k] = msg

\* C1: review_pr always returns a Review Result with its six fields, for
\* every payload and every combination of capability outcomes, and in every
\* terminal status the review field of the State Record is non-null.
C1_AlwaysReturnsReview ==
    /\ state.status \in TerminalStatuses => IsReviewResult(state.review)
    /\ pc = "returned" => /\ IsReviewResult(result)
                          /\ result = state.review
                          /\ state.status \in TerminalStatuses

C1_Witness ==
    /\ pc = "returned"
    /\ state.status = "failed"
    /\ IsFallback(result)

AllowedTransitions ==
    {<<"started", "analyzed">>, <<"analyzed", "context_retrieved">>,
     <<"context_retrieved", "reviewed">>, <<"reviewed", "completed">>,
     <<"started", "error">>, <<"analyzed", "error">>,
     <<"context_retrieved", "error">>,
     <<"error", "completed_with_errors">>, <<"error", "failed">>}

\* C2: the status starts as started and moves only along the happy path
\* started -> analyzed -> context_retrieved -> reviewed -> completed, from a
\* failing Analyze, Context or Review step to error, and from error to
\* completed_with_errors or failed; only the Error node sets the last two,
\* and a run ends only with a terminal status.
C2_StatusTransitions ==
    /\ state.status = "started"
    /\ [][/\ state'.status # state.status =>
                <<state.status, state'.status>> \in AllowedTransitions
          /\ (state'.status # state.status /\
              state'.status \in {"completed_with_errors", "failed"}) =>
                pc = "handle_error"
          /\ pc' \in {"END", "returned"} =>
                state'.status \in TerminalStatuses]_vars

C2_Witness ==
    /\ pc = "END"
    /\ state.status = "completed"
    /\ Len(state.pr_data.files) > 0

\* C3: when the Review node fails after the Context stage completed and an
\* Analysis Result exists, the Error node re-invokes Review-Generation
\* exactly once with the "context unavailable" context, and the run ends
\* completed_with_errors with that review whenever the call returns.
C3_DegradedRecovery ==
    (pc = "END" /\ Failed("Review generation failed") /\ Truthy(state.analysis)) =>
        /\ Len(reviewCalls) = 2
        /\ reviewCalls[2] = ContextUnavailable
        /\ ~IsFallback(state.review) => state.status = "completed_with_errors"

\* C4: when the Analyze node fails and no Analysis Result exists, the Error
\* node makes no Review-Generation call and the run ends failed with the
\* fallback Review Result.
C4_AnalyzeFailureFallsBack ==
    (pc \in {"END", "returned"} /\ ~Truthy(state.analysis)) =>
        /\ state.status = "failed"
        /\ reviewCalls = <<>>
        /\ state.review = Some(fallback_review(state))
        /\ state.errors = <<"Analysis failed">>

C4_Witness ==
    /\ pc = "returned"
    /\ ~Truthy(state.analysis)
    /\ Failed("Analysis failed")

\* C5: at most 3 Context-Retrieval calls are in flight at any time, whatever
\* the number of changes, and a request starts while 3 are in flight only
\* in the step in which one of them resolves and releases its slot.
C5_BoundedInFlight ==
    /\ [](Cardinality(HoldsSlot(tasks)) <= SemaphoreSlots)
    /\ [][\A i \in DOMAIN tasks :
            (/\ tasks[i] # "inflight"
             /\ tasks'[i] = "inflight"
             /\ Cardinality(HoldsSlot(tasks)) = SemaphoreSlots) =>
                \E j \in DOMAIN tasks :
                    tasks[j] = "inflight" /\ tasks'[j] # "inflight"]_vars

C5_Witness ==
    /\ Cardinality(HoldsSlot(tasks)) = SemaphoreSlots
    /\ \E i \in DOMAIN tasks : tasks[i] = "waiting"

ChangePaths ==
    IF Truthy(state.analysis)
    THEN {Changes[i].file_path : i \in 1..Len(Changes)}
    ELSE {}

\* C6: the context mapping and status context_retrieved are written only
\* once every request has resolved: while a request is new, queued or in
\* flight the mapping is still empty, the status is still analyzed and the
\* Review node has not started; once written, the mapping is complete.
C6_FullBarrier ==
    /\ (\E i \in DOMAIN tasks : tasks[i] \notin Resolved) =>
          /\ pc = "gather"
          /\ state.context = <<>>
          /\ state.status = "analyzed"
          /\ reviewCalls = <<>>
    /\ state.status = "context_retrieved" => DOMAIN state.context = ChangePaths

C6_Witness ==
    /\ \E i \in DOMAIN tasks : tasks[i] \in Resolved
    /\ \E i \in DOMAIN tasks : tasks[i] = "inflight"
    /\ state.context = <<>>

\* C7: whichever Context-Retrieval calls fail, the Context node ends with
\* status context_retrieved and no error, the mapping holds the returned
\* context of every succeeding path and the placeholder for every failing
\* path, and when Review-Generation returns the run ends completed with a
\* non-fallback Review Result.
C7_PerFileContextFailure ==
    /\ pc = "route_context" =>
          /\ state.status = "context_retrieved"
          /\ state.errors = <<>>
          /\ \A i \in DOMAIN tasks :
                state.context[Changes[i].file_path] =
                    IF tasks[i] = "placeholder"
                    THEN FailedContext
                    ELSE RetrievedContext(Changes[i].file_path)
    /\ (pc = "returned" /\ Truthy(state.analysis)
          /\ ~Failed("Review generation failed")) =>
          /\ state.status = "completed"
          /\ ~IsFallback(result)
          /\ Len(reviewCalls) = 1

C7_Witness ==
    /\ pc = "returned"
    /\ state.status = "completed"
    /\ Len(state.pr_data.files) > 1
    /\ \A i \in DOMAIN tasks : tasks[i] = "placeholder"

\* C8: when every capability call eventually returns or fails, every run
\* reaches a terminal status and returns, and every queued request of the
\* Context stage eventually obtains a slot.
C8_Termination ==
    <>(/\ pc = "returned"
       /\ state.status \in TerminalStatuses
       /\ \A i \in DOMAIN tasks : tasks[i] \in Resolved /\ ctxCalls[i] = 1)

C8_Witness ==
    /\ pc = "returned"
    /\ Len(state.pr_data.files) > SemaphoreSlots
    /\ state.status = "completed"

-----------------------------------------------------------------------------
(* The routers as pure functions: every combination of status, Analysis    *)
(* Result (absent, without changes, with a change) and Review Result       *)
(* (absent, present), with and without a context mapping and an error     *)
(* string, is handed to each of the three routers.                         *)

Statuses ==
    {"started", "analyzed", "context_retrieved", "reviewed", "completed",
     "error", "completed_with_errors", "failed"}

RouterPayloads == {p \in Payloads : Len(p.files) <= 1}

RouterStates ==
    UNION { { [initial_state(p) EXCEPT !.status = st, !.analysis = a, !.review = r,
                                       !.context = c, !.errors = e] :
                st \in Statuses,
                a \in {None, Some(AnalysisOf(p))},
                r \in {None, Some(ReviewResultOf(p.number, <<>>))},
                c \in {<<>>, <<FailedContext>>},
                e \in {<<>>, <<"Review generation failed">>} } :
            p \in RouterPayloads }

WorkflowIdle ==
    /\ state = initial_state([number |-> 7, files |-> <<>>])
    /\ pc = "idle"
    /\ tasks = <<>>
    /\ semaphore = None
    /\ reviewCalls = <<>>
    /\ ctxCalls = <<>>
    /\ writes = <<>>
    /\ analysisCalls = 0
    /\ result = None

InitRouters ==
    /\ \E s \in RouterStates : rt_in = Some(s)
    /\ rt_out = <<>>
    /\ rv_comments = <<>>
    /\ rv_overall = None
    /\ WorkflowIdle
    /\ ReviewerIdle
    /\ MergeIdle
    /\ AnalyzerIdle
    /\ DiffIdle
    /\ LanguageIdle
    /\ RunsIdle

Decide(router, decision) ==
    /\ router \notin DOMAIN rt_out
    /\ rt_out' = [k \in DOMAIN rt_out \cup {router} |->
                     IF k = router THEN decision ELSE rt_out[k]]
    /\ UNCHANGED <<rt_in, rvVars, wfVars, rwVars, mcVars, anVars, dfVars, lgVars, trVars>>

after_analysis == Decide("analysis", should_continue_after_analysis(rt_in[1]))

after_context == Decide("context", should_continue_after_context(rt_in[1]))

after_review == Decide("review", should_continue_after_review(rt_in[1]))

NextRouters == after_analysis \/ after_context \/ after_review

SpecRouters == InitRouters /\ [][NextRouters]_vars

\* C9: the router after Analyze answers error iff the status is error or
\* there is no Analysis Result, and continue otherwise, also for an Analysis
\* Result without changes; the router after Context answers error iff the
\* status is error; the router after Review answers error iff the status is
\* error or there is no Review Result.
C9_RouterTable ==
    LET s == rt_in[1]
        Answer(error) == IF error THEN "error" ELSE "continue"
    IN  /\ "analysis" \in DOMAIN rt_out =>
              rt_out["analysis"] = Answer(s.status = "error" \/ s.analysis = None)
        /\ "context" \in DOMAIN rt_out =>
              rt_out["context"] = Answer(s.status = "error")
        /\ "review" \in DOMAIN rt_out =>
              rt_out["review"] = Answer(s.status = "error" \/ s.review = None)

C9_Witness ==
    /\ DOMAIN rt_out = {"analysis", "context", "review"}
    /\ rt_in[1].status = "analyzed"
    /\ Truthy(rt_in[1].analysis)
    /\ rt_in[1].analysis[1].changes = <<>>
    /\ rt_in[1].review = None
    /\ rt_out["analysis"] = "continue"
    /\ rt_out["review"] = "error"

-----------------------------------------------------------------------------
(* The recommendation policy as a pure function: every comment list of at  *)
(* most MaxComments comments is handed to _generate_overall_assessment.    *)

RECURSIVE SeqsUpTo(_, _)
SeqsUpTo(S, n) ==
    IF n = 0 THEN {<<>>}
    ELSE LET shorter == SeqsUpTo(S, n - 1)
         IN  shorter \cup {Append(q, x) : q \in {r \in shorter : Len(r) = n - 1}, x \in S}

CommentPool ==
    {[file_path |-> 1, severity |-> sev] : sev \in Severities \cup {"info"}}

InitAssessment ==
    /\ rv_comments \in SeqsUpTo(CommentPool, MaxComments)
    /\ rv_overall = None
    /\ rt_in = None
    /\ rt_out = None
    /\ WorkflowIdle
    /\ ReviewerIdle
    /\ MergeIdle
    /\ AnalyzerIdle
    /\ DiffIdle
    /\ LanguageIdle
    /\ RunsIdle

assess ==
    /\ rv_overall = None
    /\ rv_overall' = Some(generate_overall_assessment(rv_comments))
    /\ UNCHANGED <<rv_comments, rtVars, wfVars, rwVars, mcVars, anVars, dfVars, lgVars, trVars>>

NextAssessment == assess

SpecAssessment == InitAssessment /\ [][NextAssessment]_vars

NumberOf(comments, sev) == Len(SelectSeq(comments, LAMBDA c : c.severity = sev))

\* C10: the recommendation depends on the final comment list only:
\* request_changes if there is a critical comment or there are more than 3
\* warnings, else comment if there is a warning, else approve; so 4 warnings
\* without a critical give request_changes and 3 warnings without a critical
\* give comment.
C10_RecommendationPolicy ==
    rv_overall # None =>
        LET critical == NumberOf(rv_comments, "critical")
            warning  == NumberOf(rv_comments, "warning")
            rec      == rv_overall[1].recommendation
        IN  /\ rec = IF critical >= 1 \/ warning > 3 THEN "request_changes"
                     ELSE IF warning >= 1 THEN "comment"
                     ELSE "approve"
            /\ (warning = 4 /\ critical = 0) => rec = "request_changes"
            /\ (warning = 3 /\ critical = 0) => rec = "comment"
            /\ critical >= 1 => rec = "request_changes"

C10_Witness ==
    /\ rv_overall # None
    /\ NumberOf(rv_comments, "warning") = 4
    /\ NumberOf(rv_comments, "critical") = 0
    /\ rv_overall[1].recommendation = "request_changes"

-----------------------------------------------------------------------------
(* The tail of reviewer.review as a pure pipeline: the comments collected  *)
(* from the per-file reviews (all_comments) are deduplicated, assessed and *)
(* counted.  A comment body is <<first 100 characters, remainder>>.  The   *)
(* severity of a comment is whatever string the model's answer carried:    *)
(* _parse_review_response and _security_review copy it without checking.   *)

MaxRaw == 4

comment_key_ignores_line(comment) ==
    <<comment.file_path, comment.category, Prefix100(comment.comment)>>

comment_key_with_severity(comment) ==
    <<comment.file_path, comment.line_number, comment.category,
      Prefix100(comment.comment), comment.severity>>

comment_key(comment) ==
    <<comment.file_path, comment.line_number, comment.category,
      Prefix100(comment.comment)>>

RECURSIVE deduplicate_from(_, _)
deduplicate_from(comments, seen) ==
    IF comments = <<>> THEN <<>>
    ELSE LET key == comment_key(Head(comments))
         IN  IF key \in seen
             THEN deduplicate_from(Tail(comments), seen)
             ELSE <<Head(comments)>> \o
                  deduplicate_from(Tail(comments), seen \cup {key})

deduplicate_comments_keeps_all(comments) == comments

deduplicate_comments(comments) == deduplicate_from(comments, {})

BaseComment ==
    [file_path |-> 1, line_number |-> 10, category |-> "style",
     comment |-> <<1, 1>>, severity |-> "warning"]

RawPool ==
    { BaseComment,
      [BaseComment EXCEPT !.file_path = 2, !.severity = "suggestion"],
      [BaseComment EXCEPT !.line_number = 20],
      [BaseComment EXCEPT !.category = "security"],
      [BaseComment EXCEPT !.comment = <<2, 1>>],
      [BaseComment EXCEPT !.comment = <<1, 2>>],
      [BaseComment EXCEPT !.severity = "critical"],
      [BaseComment EXCEPT !.line_number = 0, !.severity = "info"] }

InitReview ==
    /\ rw_raw \in SeqsUpTo(RawPool, MaxRaw)
    /\ rw_unique = None
    /\ rw_again = None
    /\ rw_result = None
    /\ TablesIdle
    /\ WorkflowIdle
    /\ MergeIdle
    /\ AnalyzerIdle
    /\ DiffIdle
    /\ LanguageIdle
    /\ RunsIdle

deduplicate ==
    /\ rw_unique = None
    /\ rw_unique' = Some(deduplicate_comments(rw_raw))
    /\ UNCHANGED <<rw_raw, rw_again, rw_result>>
    /\ UNCHANGED <<wfVars, rtVars, rvVars, mcVars, anVars, dfVars, lgVars, trVars>>

deduplicate_again ==
    /\ rw_unique # None
    /\ rw_again = None
    /\ rw_again' = Some(deduplicate_comments(rw_unique[1]))
    /\ UNCHANGED <<rw_raw, rw_unique, rw_result>>
    /\ UNCHANGED <<wfVars, rtVars, rvVars, mcVars, anVars, dfVars, lgVars, trVars>>

assemble ==
    /\ rw_unique # None
    /\ rw_result = None
    /\ rw_result' = Some(ReviewResultOf(7, rw_unique[1]))
    /\ UNCHANGED <<rw_raw, rw_unique, rw_again>>
    /\ UNCHANGED <<wfVars, rtVars, rvVars, mcVars, anVars, dfVars, lgVars, trVars>>

NextReview == deduplicate \/ deduplicate_again \/ assemble

SpecReview == InitReview /\ [][NextReview]_vars

\* C11: in every Review Result the total of the statistics is the number of
\* comments, each of the critical, warning and suggestion counts is
\* non-negative, and the three counts add up to the total.
C11_StatsConsistent ==
    rw_result # None =>
        LET stats == rw_result[1].stats
        IN  /\ stats.total = Len(rw_result[1].comments)
            /\ stats.critical >= 0
            /\ stats.warning >= 0
            /\ stats.suggestion >= 0
            /\ stats.critical + stats.warning + stats.suggestion = stats.total

SameKey(a, b) ==
    /\ a.file_path = b.file_path
    /\ a.line_number = b.line_number
    /\ a.category = b.category
    /\ a.comment[1] = b.comment[1]

\* C12: deduplication collapses comments that agree on file path, line
\* number, category and the first 100 characters of the body, keeps apart
\* comments that differ in one of the four, leaves exactly one comment for
\* every distinct key of its input, and applied to its own output it
\* changes nothing.
C12_Deduplication ==
    /\ rw_unique # None =>
          LET unique == rw_unique[1]
          IN  /\ \A i \in 1..Len(unique) : \E j \in 1..Len(rw_raw) :
                    unique[i] = rw_raw[j]
              /\ \A i, j \in 1..Len(unique) :
                    SameKey(unique[i], unique[j]) => i = j
              /\ \A j \in 1..Len(rw_raw) :
                    Cardinality({i \in 1..Len(unique) :
                                    SameKey(unique[i], rw_raw[j])}) = 1
    /\ rw_again # None => rw_again = rw_unique

C12_Witness ==
    /\ rw_again # None
    /\ rw_again = rw_unique
    /\ Len(rw_unique[1]) = 2
    /\ Len(rw_raw) = 3
    /\ \E i, j, k \in 1..3 :
          /\ i # j
          /\ rw_raw[i] # rw_raw[j]
          /\ SameKey(rw_raw[i], rw_raw[j])
          /\ rw_raw[k] = [rw_raw[i] EXCEPT !.line_number = 20]
          /\ rw_raw[i].line_number = 10

-----------------------------------------------------------------------------
(* _merge_contexts as a pure function of the context mapping.  The mapping *)
(* has up to MaxCtxFiles files; the lists of one file hold up to MaxItems  *)
(* items whose content prefixes are consecutive, starting at 1 or after    *)
(* MaxItems, so that files repeat each other's prefixes or add new ones.   *)
(* Items of different files differ beyond the first 100 characters.        *)

MaxCtxFiles == 3
MaxItems == 6

Span(offset, length, path) == [j \in 1..length |-> Item(offset + j, path)]

ContextOf(path, offset, length) ==
    [similar_reviews  |-> Span(offset, length, path),
     coding_standards |-> Span(offset, length, path),
     documentation    |-> Span(offset, length, path),
     summary          |-> IF length = 0 THEN "" ELSE "relevant"]

Shapes == (({0, MaxItems} \X (1..MaxItems)) \cup {<<0, 0>>})

InitMerge ==
    /\ \E k \in 0..MaxCtxFiles : \E shape \in [1..k -> Shapes] :
          mc_contexts = [p \in 1..k |-> ContextOf(p, shape[p][1], shape[p][2])]
    /\ mc_merged = None
    /\ TablesIdle
    /\ WorkflowIdle
    /\ ReviewerIdle
    /\ AnalyzerIdle
    /\ DiffIdle
    /\ LanguageIdle
    /\ RunsIdle

merge ==
    /\ mc_merged = None
    /\ mc_merged' = Some(merge_contexts(mc_contexts))
    /\ UNCHANGED mc_contexts
    /\ UNCHANGED <<wfVars, rtVars, rvVars, rwVars, anVars, dfVars, lgVars, trVars>>

NextMerge == merge

SpecMerge == InitMerge /\ [][NextMerge]_vars

\* positions <<file, index>> of the items of one list of the mapping
Positions(field) ==
    UNION { { <<p, j>> : j \in 1..Len(mc_contexts[p][field]) } :
            p \in DOMAIN mc_contexts }

Before(a, b) == a[1] < b[1] \/ (a[1] = b[1] /\ a[2] < b[2])

ItemAt(field, a) == mc_contexts[a[1]][field][a[2]]

\* positions of the items that repeat no earlier item's first 100 characters
Distinct(field) ==
    { a \in Positions(field) :
        \A b \in Positions(field) :
            Before(b, a) => ItemAt(field, b).content[1] # ItemAt(field, a).content[1] }

CappedDistinct(field, cap) ==
    LET list == mc_merged[1][field]
        distinct == Distinct(field)
        Rank(a) == Cardinality({b \in distinct : Before(b, a)}) + 1
    IN  /\ Len(list) <= cap
        /\ \A i, j \in 1..Len(list) :
              list[i].content[1] = list[j].content[1] => i = j
        /\ Len(list) = Min(cap, Cardinality(distinct))
        /\ \A a \in distinct :
              Rank(a) <= cap => list[Rank(a)] = ItemAt(field, a)

\* C13: the Merged Context has at most 10 prior-feedback items, 5 standards
\* items and 5 reference items; no two items of a list share their first
\* 100 characters; and each list is the first 10 (or 5) distinct items of
\* the mapping in mapping order, so never fewer than the smaller of the cap
\* and the number of distinct items.
C13_MergedCaps ==
    mc_merged # None =>
        /\ CappedDistinct("similar_reviews", 10)
        /\ CappedDistinct("coding_standards", 5)
        /\ CappedDistinct("documentation", 5)

C13_Witness ==
    /\ mc_merged # None
    /\ Len(mc_merged[1].similar_reviews) = 10
    /\ Len(mc_merged[1].coding_standards) = 5
    /\ Cardinality(Distinct("similar_reviews")) > 10
    /\ Cardinality(Positions("similar_reviews")) >
          Cardinality(Distinct("similar_reviews"))
    /\ \E a \in Positions("similar_reviews") \ Distinct("similar_reviews") :
          Cardinality({b \in Positions("similar_reviews") : Before(b, a)}) < 10

-----------------------------------------------------------------------------
(* The fallback Review Result, the error list and the empty submission in  *)
(* the workflow run (specification Spec).                                  *)

\* the lines of a text that contain the string e
LinesWith(text, e) == {k \in 1..Len(text) : \E n \in 1..Len(text[k]) : text[k][n] = e}

\* every string of errors occurs in the text, in the order of errors
ContainsInOrder(text, errors) ==
    \E at \in [1..Len(errors) -> 1..Len(text)] :
        /\ \A i \in 1..Len(errors) : at[i] \in LinesWith(text, errors[i])
        /\ \A i, j \in 1..Len(errors) : i < j => at[i] < at[j]

FallbackOf(review, errors) ==
    /\ review.comments = <<>>
    /\ review.approval_recommendation = "comment"
    /\ review.stats = [critical |-> 0, warning |-> 0, suggestion |-> 0, total |-> 0]
    /\ review.overall_assessment = "could_not_be_completed"
    /\ ContainsInOrder(review.summary, errors)

\* C14: when the Error node takes the fallback path, the status becomes
\* failed and the Review Result it leaves has no comments, recommendation
\* comment, all four counts 0, the assessment that the automated review
\* could not be completed, and a summary containing every string of the
\* accumulated error list in order.
C14_FallbackReview ==
    [][(pc = "handle_error" /\ state'.status # "completed_with_errors") =>
          /\ state'.status = "failed"
          /\ Truthy(state'.review)
          /\ FallbackOf(state'.review[1], state.errors)
          /\ state'.errors = state.errors]_vars

C14_Witness ==
    /\ pc = "END"
    /\ state.status = "failed"
    /\ state.errors = <<"Review generation failed">>
    /\ Truthy(state.analysis)
    /\ FallbackOf(state.review[1], state.errors)
    /\ Len(state.review[1].summary) = 3

IsPrefix(s, t) == Len(s) <= Len(t) /\ SubSeq(t, 1, Len(s)) = s

\* C15: the error list only grows by appending: across every step of a run
\* the earlier list is a prefix of the later one, and a step of a node whose
\* update carries no error leaves the list as it was.
C15_ErrorsAppendOnly ==
    [][/\ IsPrefix(state.errors, state'.errors)
       /\ state'.status # "error" => state'.errors = state.errors]_vars

C15_Witness ==
    /\ pc = "returned"
    /\ state.errors = <<"Analysis failed">>
    /\ state.status = "failed"

\* C16: a submission with zero files completes on the happy path: the
\* Analysis Result has total_files_changed = 0 and no changes, no Analysis
\* and no Context-Retrieval call is made, the context mapping is empty, the
\* Review Result has no comments and recommends approve, the final status
\* is completed, and the Error node is never entered.
C16_EmptySubmission ==
    state.pr_data.files = <<>> =>
        /\ pc # "handle_error"
        /\ state.status \notin {"error", "failed", "completed_with_errors"}
        /\ analysisCalls = 0
        /\ \A i \in DOMAIN ctxCalls : ctxCalls[i] = 0
        /\ tasks = <<>>
        /\ Truthy(state.analysis) =>
              /\ state.analysis[1].total_files_changed = 0
              /\ state.analysis[1].changes = <<>>
        /\ state.context = <<>>
        /\ Truthy(state.review) =>
              /\ state.review[1].comments = <<>>
              /\ state.review[1].approval_recommendation = "approve"
        /\ pc \in {"END", "returned"} =>
              /\ state.status = "completed"
              /\ Truthy(state.analysis)
              /\ Truthy(state.review)
        /\ pc = "returned" => result = state.review

C16_Witness ==
    /\ pc = "returned"
    /\ state.pr_data.files = <<>>
    /\ state.status = "completed"
    /\ Truthy(result)
    /\ result[1].comments = <<>>
    /\ result[1].approval_recommendation = "approve"
    /\ state.analysis[1].total_files_changed = 0
    /\ Len(reviewCalls) = 1

-----------------------------------------------------------------------------
(* analyzer.py: parse_diff_hunks.  A text is the sequence of its lines     *)
(* (what split('\n') gives: the empty text is one empty line), a line is a *)
(* sequence of characters.  A line that matches the hunk header pattern    *)
(* carries the groups of the match: the two start numbers and the two     *)
(* counts as the digits written in the header (a count is None when the    *)
(* header omits it) and the characters after the second "@@"; every other  *)
(* line carries its characters.                                            *)

MaxLines == 3

Whitespace == {" "}

TextLine(chars) == [header |-> None, text |-> chars]

HeaderLine(old_start, old_count, new_start, new_count, context) ==
    [header |-> Some([old_start |-> old_start, old_count |-> old_count,
                      new_start |-> new_start, new_count |-> new_count,
                      context   |-> context]),
     text   |-> <<>>]

LinePool ==
    { TextLine(<<>>),
      TextLine(<<" ">>),
      TextLine(<<" ", "x">>),
      TextLine(<<" ", "-", "x">>),
      TextLine(<<"+", "x">>),
      TextLine(<<"+", "x", " ">>),
      TextLine(<<"-", "x">>),
      TextLine(<<"+", "+", "+">>),
      TextLine(<<"-", "-", "-">>),
      TextLine(<<"@", "@">>),
      HeaderLine(<<"1">>, Some(<<"3">>), <<"1">>, Some(<<"4">>), <<" ", "f">>),
      HeaderLine(<<"1", "0">>, None, <<"1", "0">>, None, <<>>),
      HeaderLine(<<"0">>, Some(<<"0">>), <<"1">>, None, <<>>),
      HeaderLine(<<"5">>, None, <<"0", "7">>, Some(<<"2">>), <<>>) }

startswith(line, prefix) ==
    Len(line) >= Len(prefix) /\ SubSeq(line, 1, Len(prefix)) = prefix

RECURSIVE lstrip(_)
lstrip(chars) ==
    IF chars # <<>> /\ Head(chars) \in Whitespace
    THEN lstrip(Tail(chars))
    ELSE chars

RECURSIVE rstrip(_)
rstrip(chars) ==
    IF chars # <<>> /\ chars[Len(chars)] \in Whitespace
    THEN rstrip(SubSeq(chars, 1, Len(chars) - 1))
    ELSE chars

(* str.strip() of a text of several lines: the blank lines at both ends go, *)
(* and so does the white space before the first and after the last         *)
(* character that is not white space.                                      *)
strip_keeps_ends(lines) == lines

strip(lines) ==
    LET inked == {i \in 1..Len(lines) : lstrip(lines[i]) # <<>>}
    IN  IF inked = {} THEN << <<>> >>
        ELSE LET first == CHOOSE i \in inked : \A j \in inked : i <= j
                 last  == CHOOSE i \in inked : \A j \in inked : j <= i
             IN  [k \in 1..(last - first + 1) |->
                    LET line  == lines[first + k - 1]
                        right == IF k = last - first + 1 THEN rstrip(line) ELSE line
                    IN  IF k = 1 THEN lstrip(right) ELSE right]

matches(diff) == {i \in 1..Len(diff) : diff[i].header # None}

(* diff[start_pos:end_pos] for the match in line m: from the end of line m *)
(* to the start of the next matching line, or to the end of the text       *)
between(diff, m) ==
    LET later == {i \in matches(diff) : i > m}
    IN  IF later = {}
        THEN << <<>> >> \o [k \in 1..(Len(diff) - m) |-> diff[m + k].text]
        ELSE LET next == CHOOSE i \in later : \A j \in later : i <= j
             IN  << <<>> >> \o [k \in 1..(next - m - 1) |-> diff[m + k].text]
                 \o << <<>> >>

added_of(content) ==
    LET marked == SelectSeq(content, LAMBDA line :
                      startswith(line, <<"+">>) /\ ~startswith(line, <<"+", "+", "+">>))
    IN  [k \in 1..Len(marked) |-> Tail(marked[k])]

removed_of(content) ==
    LET marked == SelectSeq(content, LAMBDA line :
                      startswith(line, <<"-">>) /\ ~startswith(line, <<"-", "-", "-">>))
    IN  [k \in 1..Len(marked) |-> Tail(marked[k])]

digit(char) ==
    CASE char = "0" -> 0 [] char = "1" -> 1 [] char = "2" -> 2
      [] char = "3" -> 3 [] char = "4" -> 4 [] char = "5" -> 5
      [] char = "6" -> 6 [] char = "7" -> 7 [] char = "8" -> 8
      [] char = "9" -> 9

RECURSIVE int(_)
int(digits) ==
    IF digits = <<>> THEN 0
    ELSE 10 * int(SubSeq(digits, 1, Len(digits) - 1)) + digit(digits[Len(digits)])

count_of_zero_is_omitted(group) ==
    IF Truthy(group) /\ int(group[1]) # 0 THEN int(group[1]) ELSE 1

count_of(group) == IF Truthy(group) THEN int(group[1]) ELSE 1

hunk_of(diff, m) ==
    LET match   == diff[m].header[1]
        content == strip(between(diff, m))
    IN  [old_start     |-> int(match.old_start),
         old_count     |-> count_of(match.old_count),
         new_start     |-> int(match.new_start),
         new_count     |-> count_of(match.new_count),
         header        |-> lstrip(rstrip(match.context)),
         content       |-> content,
         added_lines   |-> added_of(content),
         removed_lines |-> removed_of(content)]

RECURSIVE hunks_from(_, _)
hunks_from(diff, m) ==
    IF m > Len(diff) THEN <<>>
    ELSE IF m \in matches(diff)
         THEN <<hunk_of(diff, m)>> \o hunks_from(diff, m + 1)
         ELSE hunks_from(diff, m + 1)

parse_diff_hunks(diff) ==
    IF diff = <<TextLine(<<>>)>> THEN <<>> ELSE hunks_from(diff, 1)

InitDiff ==
    /\ \E n \in 1..MaxLines : df_diff \in [1..n -> LinePool]
    /\ df_hunks = None
    /\ TablesIdle
    /\ WorkflowIdle
    /\ ReviewerIdle
    /\ MergeIdle
    /\ AnalyzerIdle
    /\ LanguageIdle
    /\ RunsIdle

parse ==
    /\ df_hunks = None
    /\ df_hunks' = Some(parse_diff_hunks(df_diff))
    /\ UNCHANGED df_diff
    /\ UNCHANGED <<wfVars, rtVars, rvVars, rwVars, mcVars, anVars, lgVars, trVars>>

NextDiff == parse

SpecDiff == InitDiff /\ [][NextDiff]_vars

-----------------------------------------------------------------------------
(* analyzer.py: analyze_pr step by step.  The files are analysed one after *)
(* the other: the language is detected, the patch is decomposed, and the   *)
(* file is classified.  A skipped file gets no Analysis call; for the      *)
(* others the call returns an analysis or fails, and a failure leaves the  *)
(* Change without analysis.  Then the summary call is made if some file    *)
(* has an analysis, and the risk and the categories are aggregated.  The   *)
(* result is <<"returned", Analysis Result>> or <<"raised">>; the Analyze  *)
(* node turns it into its partial update.                                  *)
(* A path is the sequence of its pieces (directories with their slash,     *)
(* stem, extensions); a pattern is a sequence of pieces that is searched   *)
(* in the lower-cased path, at its end when the pattern ends in "$".       *)

MaxAnFiles == 3

RiskLevels == {"low", "medium", "high"}

lower(piece) ==
    CASE piece = "LOGO"       -> "logo"
      [] piece = ".PNG"       -> ".png"
      [] piece = "README"     -> "readme"
      [] piece = "Dockerfile" -> "dockerfile"
      [] piece = "DOCKERFILE" -> "dockerfile"
      [] piece = "Makefile"   -> "makefile"
      [] piece = ".PY"        -> ".py"
      [] OTHER                -> piece

lowered(file_path) == [k \in 1..Len(file_path) |-> lower(file_path[k])]

endswith(file_path, pieces) ==
    /\ Len(file_path) >= Len(pieces)
    /\ SubSeq(file_path, Len(file_path) - Len(pieces) + 1, Len(file_path)) = pieces

contains(file_path, pieces) ==
    \E k \in 0..(Len(file_path) - Len(pieces)) :
        SubSeq(file_path, k + 1, k + Len(pieces)) = pieces

extension_map ==
    << <<".py", "python">>, <<".js", "javascript">>, <<".ts", "typescript">>,
       <<".go", "go">>, <<".json", "json">>, <<".css", "css">>,
       <<".md", "markdown">>, <<".txt", "text">> >>

detect_language_by_suffix_first(file_path) ==
    LET hits == {k \in 1..Len(extension_map) :
                    endswith(lowered(file_path), <<extension_map[k][1]>>)}
    IN  IF hits # {}
        THEN extension_map[CHOOSE k \in hits : \A j \in hits : k <= j][2]
        ELSE IF contains(lowered(file_path), <<"dockerfile">>) THEN "dockerfile"
        ELSE "unknown"

detect_language(file_path) ==
    IF contains(lowered(file_path), <<"dockerfile">>) THEN "dockerfile"
    ELSE LET hits == {k \in 1..Len(extension_map) :
                         endswith(lowered(file_path), <<extension_map[k][1]>>)}
         IN  IF hits = {} THEN "unknown"
             ELSE extension_map[CHOOSE k \in hits : \A j \in hits : k <= j][2]

reviewable_languages_and_markdown ==
    {"python", "javascript", "typescript", "java", "go", "rust",
     "cpp", "c", "csharp", "fsharp", "ruby", "php", "swift",
     "kotlin", "scala", "sql", "bash", "zsh", "powershell",
     "dockerfile", "terraform", "hcl", "vue", "svelte",
     "r", "julia", "elixir", "erlang", "clojure", "lisp", "lua", "perl",
     "markdown"}

reviewable_languages ==
    {"python", "javascript", "typescript", "java", "go", "rust",
     "cpp", "c", "csharp", "fsharp", "ruby", "php", "swift",
     "kotlin", "scala", "sql", "bash", "zsh", "powershell",
     "dockerfile", "terraform", "hcl", "vue", "svelte",
     "r", "julia", "elixir", "erlang", "clojure", "lisp", "lua", "perl"}

skip_patterns ==
    { [pieces |-> <<".lock">>, at_end |-> TRUE],
      [pieces |-> <<"package-lock", ".json">>, at_end |-> TRUE],
      [pieces |-> <<"yarn", ".lock">>, at_end |-> TRUE],
      [pieces |-> <<".min", ".js">>, at_end |-> TRUE],
      [pieces |-> <<".min", ".css">>, at_end |-> TRUE],
      [pieces |-> <<".map">>, at_end |-> TRUE],
      [pieces |-> <<".svg">>, at_end |-> TRUE],
      [pieces |-> <<".png">>, at_end |-> TRUE],
      [pieces |-> <<".jpg">>, at_end |-> TRUE],
      [pieces |-> <<".jpeg">>, at_end |-> TRUE],
      [pieces |-> <<".gif">>, at_end |-> TRUE],
      [pieces |-> <<".ico">>, at_end |-> TRUE],
      [pieces |-> <<".woff">>, at_end |-> FALSE],
      [pieces |-> <<".ttf">>, at_end |-> TRUE],
      [pieces |-> <<".eot">>, at_end |-> TRUE],
      [pieces |-> <<"__pycache__">>, at_end |-> FALSE],
      [pieces |-> <<".pyc">>, at_end |-> TRUE],
      [pieces |-> <<"node_modules/">>, at_end |-> FALSE],
      [pieces |-> <<"vendor/">>, at_end |-> FALSE],
      [pieces |-> <<".generated", ".">>, at_end |-> FALSE] }

search(pattern, file_path) ==
    IF pattern.at_end
    THEN endswith(lowered(file_path), pattern.pieces)
    ELSE contains(lowered(file_path), pattern.pieces)

should_skip_analysis_by_language(file_path, language) ==
    language \notin reviewable_languages

should_skip_analysis(file_path, language) ==
    IF \E pattern \in skip_patterns : search(pattern, file_path)
    THEN TRUE
    ELSE language \notin reviewable_languages

(* The file entries a payload is made of, with their patch as a text       *)
FilePool ==
    { [filename |-> <<"src/", "app", ".py">>, status |-> "modified",
       additions |-> 2, deletions |-> 1,
       patch |-> <<HeaderLine(<<"1">>, Some(<<"3">>), <<"1">>, Some(<<"4">>), <<>>),
                   TextLine(<<"-", "x">>), TextLine(<<"+", "x">>)>>],
      [filename |-> <<"app", ".min", ".js">>, status |-> "modified",
       additions |-> 1, deletions |-> 0,
       patch |-> <<HeaderLine(<<"1">>, None, <<"1">>, None, <<>>),
                   TextLine(<<"+", "x">>)>>],
      [filename |-> <<"vendor/", "lib", ".go">>, status |-> "added",
       additions |-> 3, deletions |-> 0,
       patch |-> <<HeaderLine(<<"0">>, Some(<<"0">>), <<"1">>, None, <<>>),
                   TextLine(<<"+", "x">>)>>],
      [filename |-> <<"README", ".md">>, status |-> "modified",
       additions |-> 0, deletions |-> 1,
       patch |-> <<HeaderLine(<<"5">>, None, <<"5">>, Some(<<"0">>), <<>>),
                   TextLine(<<"-", "x">>)>>],
      [filename |-> <<"LOGO", ".PNG">>, status |-> "added",
       additions |-> 0, deletions |-> 0,
       patch |-> <<TextLine(<<>>)>>] }

Analyses ==
    {[risk_level |-> r, categories |-> c] :
        r \in RiskLevels, c \in {<<"bugfix">>, <<"feature">>}}

risk_order(risk) ==
    CASE risk = "low"    -> 0
      [] risk = "medium" -> 1
      [] risk = "high"   -> 2
      [] OTHER           -> 0

raise_risk_to_last(max_risk, change_risk) == change_risk

raise_risk(max_risk, change_risk) ==
    IF risk_order(change_risk) > risk_order(max_risk)
    THEN change_risk
    ELSE max_risk

RECURSIVE max_risk_from(_, _)
max_risk_from(changes, max_risk) ==
    IF changes = <<>> THEN max_risk
    ELSE max_risk_from(Tail(changes),
                       IF Truthy(Head(changes).analysis)
                       THEN raise_risk(max_risk, Head(changes).analysis[1].risk_level)
                       ELSE max_risk)

RECURSIVE all_categories(_)
all_categories(changes) ==
    IF changes = <<>> THEN {}
    ELSE (IF Truthy(Head(changes).analysis)
          THEN {Head(changes).analysis[1].categories[k] :
                   k \in 1..Len(Head(changes).analysis[1].categories)}
          ELSE {}) \cup all_categories(Tail(changes))

file_analyses(changes) == SelectSeq(changes, LAMBDA c : Truthy(c.analysis))

RECURSIVE sum(_, _)
sum(changes, field) ==
    IF changes = <<>> THEN 0
    ELSE Head(changes)[field] + sum(Tail(changes), field)

AnalysisResultOf(changes) ==
    [pr_number           |-> 7,
     total_files_changed |-> Len(changes),
     total_additions     |-> sum(changes, "additions"),
     total_deletions     |-> sum(changes, "deletions"),
     changes             |-> changes,
     risk_level          |-> max_risk_from(changes, "low"),
     categories          |-> all_categories(changes)]

change_of(file_data) ==
    [file_path   |-> file_data.filename,
     change_type |-> file_data.status,
     diff        |-> file_data.patch,
     language    |-> detect_language(file_data.filename),
     hunks       |-> parse_diff_hunks(file_data.patch),
     additions   |-> file_data.additions,
     deletions   |-> file_data.deletions,
     analysis    |-> None]

(* the Analysis calls _analyze_file_change makes for the file at index     *)
llm_calls_for_every_file(index, skip) == <<<<"file", index>>>>

llm_calls(index, skip) == IF skip THEN <<>> ELSE <<<<"file", index>>>>

(* what "except Exception" around the per-file Analysis call does          *)
llm_failure_aborts == "raised"

llm_failure == "logged"

analyze_node_update_keeps_partial(outcome, changes) ==
    IF outcome[1] = "returned"
    THEN [analysis |-> Some(outcome[2]), status |-> "analyzed"]
    ELSE [analysis |-> Some(AnalysisResultOf(changes)),
          errors |-> <<"Analysis failed">>, status |-> "error"]

analyze_node_update(outcome, changes) ==
    IF outcome[1] = "returned"
    THEN [analysis |-> Some(outcome[2]), status |-> "analyzed"]
    ELSE [errors |-> <<"Analysis failed">>, status |-> "error"]

InitAnalyzer ==
    /\ \E n \in 0..MaxAnFiles : an_files \in [1..n -> FilePool]
    /\ an_changes = <<>>
    /\ an_calls = <<>>
    /\ an_result = None
    /\ an_update = None
    /\ an_inflight = {}
    /\ TablesIdle
    /\ WorkflowIdle
    /\ ReviewerIdle
    /\ MergeIdle
    /\ DiffIdle
    /\ LanguageIdle
    /\ RunsIdle

(* "await": analyze_pr goes on only when the call it made has resolved     *)
may_start_concurrently(inflight) == TRUE

may_start(inflight) == inflight = {}

(* the number of file entries the loop of analyze_pr has taken up           *)
Started == Len(an_changes) + Cardinality({call \in an_inflight : call[1] = "file"})

(* _analyze_file_change for the next file of the loop of analyze_pr, up to  *)
(* the Analysis call: a skipped file yields its Change at once              *)
analyze_file_change ==
    /\ an_result = None
    /\ may_start(an_inflight)
    /\ Started < Len(an_files)
    /\ LET index  == Started + 1
           change == change_of(an_files[index])
           skip   == should_skip_analysis(change.file_path, change.language)
       IN  /\ an_calls' = an_calls \o llm_calls(index, skip)
           /\ IF skip
              THEN /\ an_changes' = Append(an_changes, change)
                   /\ UNCHANGED an_inflight
              ELSE /\ an_inflight' = an_inflight \cup {<<"file", index>>}
                   /\ UNCHANGED an_changes
    /\ UNCHANGED <<an_files, an_result, an_update>>
    /\ UNCHANGED <<wfVars, rtVars, rvVars, rwVars, mcVars, dfVars, lgVars, trVars>>

(* the Analysis call of a file returns an analysis or fails; the Change is  *)
(* appended to the changes of analyze_pr                                   *)
llm_analyze_file_resolves ==
    /\ an_result = None
    /\ \E call \in an_inflight :
          /\ call[1] = "file"
          /\ an_inflight' = an_inflight \ {call}
          /\ \E answer \in {None} \cup {Some(a) : a \in Analyses} :
                IF answer = None /\ llm_failure = "raised"
                THEN /\ an_result' = <<"raised">>
                     /\ UNCHANGED an_changes
                ELSE /\ an_changes' = Append(an_changes,
                            [change_of(an_files[call[2]]) EXCEPT !.analysis = answer])
                     /\ UNCHANGED an_result
    /\ UNCHANGED <<an_files, an_calls, an_update>>
    /\ UNCHANGED <<wfVars, rtVars, rvVars, rwVars, mcVars, dfVars, lgVars, trVars>>

(* after the loop: _generate_overall_summary makes the summary call, or     *)
(* returns its default without a call when no file has an analysis, and    *)
(* analyze_pr then aggregates and returns                                  *)
generate_overall_summary ==
    /\ an_result = None
    /\ may_start(an_inflight)
    /\ <<"summary", 0>> \notin an_inflight
    /\ Len(an_changes) = Len(an_files)
    /\ IF file_analyses(an_changes) = <<>>
       THEN /\ an_result' = <<"returned", AnalysisResultOf(an_changes)>>
            /\ UNCHANGED <<an_calls, an_inflight>>
       ELSE /\ an_calls' = Append(an_calls, <<"summary", 0>>)
            /\ an_inflight' = an_inflight \cup {<<"summary", 0>>}
            /\ UNCHANGED an_result
    /\ UNCHANGED <<an_files, an_changes, an_update>>
    /\ UNCHANGED <<wfVars, rtVars, rvVars, rwVars, mcVars, dfVars, lgVars, trVars>>

(* the summary call resolves; the rest of analyze_pr: aggregation, result  *)
summarize_and_aggregate ==
    /\ an_result = None
    /\ <<"summary", 0>> \in an_inflight
    /\ an_inflight' = an_inflight \ {<<"summary", 0>>}
    /\ \/ an_result' = <<"returned", AnalysisResultOf(an_changes)>>
       \/ an_result' = <<"raised">>
    /\ UNCHANGED <<an_files, an_changes, an_calls, an_update>>
    /\ UNCHANGED <<wfVars, rtVars, rvVars, rwVars, mcVars, dfVars, lgVars, trVars>>

(* _analyze_node: the partial update made of what analyze_pr did           *)
analyze_node_returns ==
    /\ an_result # None
    /\ an_update = None
    /\ an_update' = Some(analyze_node_update(an_result, an_changes))
    /\ UNCHANGED <<an_files, an_changes, an_calls, an_result, an_inflight>>
    /\ UNCHANGED <<wfVars, rtVars, rvVars, rwVars, mcVars, dfVars, lgVars, trVars>>

NextAnalyzer ==
    \/ analyze_file_change
    \/ llm_analyze_file_resolves
    \/ generate_overall_summary
    \/ summarize_and_aggregate
    \/ analyze_node_returns

SpecAnalyzer == InitAnalyzer /\ [][NextAnalyzer]_vars

RiskRank(risk) == IF risk = "high" THEN 3 ELSE IF risk = "medium" THEN 2 ELSE 1

\* C17: when analyze_pr returns, the risk level of the Analysis Result is
\* the maximum, under low < medium < high, of the risk levels of the Changes
\* that have an analysis, and low when no Change has one; so it is at least
\* the risk of every Change it contains.
C17_RiskIsMaximum ==
    (an_result # None /\ an_result[1] = "returned") =>
        LET analysis == an_result[2]
            changes  == analysis.changes
            present  == {i \in 1..Len(changes) : changes[i].analysis # None}
            RiskOf(i) == changes[i].analysis[1].risk_level
        IN  /\ changes = an_changes
            /\ analysis.risk_level \in RiskLevels
            /\ present = {} => analysis.risk_level = "low"
            /\ present # {} => \E i \in present : analysis.risk_level = RiskOf(i)
            /\ \A i \in present : RiskRank(analysis.risk_level) >= RiskRank(RiskOf(i))

C17_Witness ==
    /\ an_result # None
    /\ an_result[1] = "returned"
    /\ an_result[2].risk_level = "high"
    /\ Len(an_changes) = 3
    /\ an_changes[1].analysis # None
    /\ an_changes[1].analysis[1].risk_level = "high"
    /\ an_changes[2].analysis = None
    /\ an_changes[3].analysis # None
    /\ an_changes[3].analysis[1].risk_level = "medium"

\* the file at index i was sent to the Analysis capability
Sent(i) == \E n \in 1..Len(an_calls) : an_calls[n] = <<"file", i>>

\* the path matches a pattern of the denylist, letter case aside
Denylisted(path) ==
    \E pattern \in skip_patterns :
        \E k \in 0..(Len(path) - Len(pattern.pieces)) :
            /\ pattern.at_end => k + Len(pattern.pieces) = Len(path)
            /\ \A n \in 1..Len(pattern.pieces) : lower(path[k + n]) = pattern.pieces[n]

\* C22: a file is skipped if its path matches a denylist pattern, whatever
\* its language, and otherwise iff its language is not in the allowlist of
\* reviewable languages: it is sent to the Analysis capability iff it matches
\* no pattern and its language is reviewable, and files with the same path
\* and language get the same decision.
C22_SkipDecision ==
    \A i \in 1..Len(an_changes) :
        LET change == an_changes[i]
        IN  /\ Denylisted(change.file_path) => ~Sent(i)
            /\ ~Denylisted(change.file_path) =>
                  (Sent(i) <=> change.language \in reviewable_languages)
            /\ \A j \in 1..Len(an_changes) :
                  (/\ an_changes[j].file_path = change.file_path
                   /\ an_changes[j].language = change.language) =>
                      (Sent(j) <=> Sent(i))

C22_Witness ==
    /\ Len(an_changes) = 3
    /\ an_changes[1].file_path = <<"app", ".min", ".js">>
    /\ an_changes[1].language = "javascript"
    /\ ~Sent(1)
    /\ an_changes[2].file_path = <<"src/", "app", ".py">>
    /\ Sent(2)
    /\ an_changes[3].file_path = <<"README", ".md">>
    /\ an_changes[3].language = "markdown"
    /\ ~Sent(3)

\* C24: a failed Analysis call for one file leaves that Change without
\* analysis and nothing else: all files are processed, every Change is in
\* the Analysis Result and counted in its totals, and the Analyze node
\* returns status analyzed without an error string.  analyze_pr raises only
\* in the summary call, after every file was processed.
C24_PerFileFailure ==
    /\ an_result # None =>
          /\ Len(an_changes) = Len(an_files)
          /\ \A i \in 1..Len(an_files) : an_changes[i].file_path = an_files[i].filename
          /\ an_result[1] = "raised" => an_calls[Len(an_calls)] = <<"summary", 0>>
          /\ an_result[1] = "returned" =>
                /\ an_result[2].changes = an_changes
                /\ an_result[2].total_files_changed = Len(an_files)
    /\ (an_update # None /\ an_result[1] = "returned") =>
          /\ an_update[1].status = "analyzed"
          /\ "errors" \notin DOMAIN an_update[1]
          /\ an_update[1].analysis = Some(an_result[2])

C24_Witness ==
    /\ an_update # None
    /\ an_update[1].status = "analyzed"
    /\ Len(an_changes) = 3
    /\ Sent(1)
    /\ an_changes[1].analysis = None
    /\ Sent(2)
    /\ an_changes[2].analysis # None
    /\ an_result[2].total_files_changed = 3
    /\ an_result[2].total_additions = 5

C26_SkippedFiles ==
    /\ \A i \in 1..Len(an_changes) :
          LET change == an_changes[i]
              file   == an_files[i]
              calls  == Cardinality({n \in 1..Len(an_calls) : an_calls[n] = <<"file", i>>})
          IN  /\ change.file_path = file.filename
              /\ change.change_type = file.status
              /\ change.diff = file.patch
              /\ change.additions = file.additions
              /\ change.deletions = file.deletions
              /\ Len(change.hunks) =
                    Cardinality({k \in 1..Len(file.patch) : file.patch[k].header # None})
              /\ should_skip_analysis(change.file_path, change.language) =>
                    (calls = 0 /\ change.analysis = None)
              /\ ~should_skip_analysis(change.file_path, change.language) => calls = 1
    /\ \A n \in 1..Len(an_calls) : an_calls[n][1] = "file" => an_calls[n][2] <= Len(an_changes) + 1
    /\ (an_result # None /\ an_result[1] = "returned") =>
          LET Total(field) ==
                  LET RECURSIVE upto(_)
                      upto(n) == IF n = 0 THEN 0 ELSE upto(n - 1) + an_files[n][field]
                  IN  upto(Len(an_files))
          IN  /\ an_result[2].total_files_changed = Len(an_files)
              /\ an_result[2].total_additions = Total("additions")
              /\ an_result[2].total_deletions = Total("deletions")
              /\ an_result[2].changes = an_changes

C26_Witness ==
    /\ an_result # None
    /\ an_result[1] = "returned"
    /\ Len(an_changes) = 3
    /\ an_changes[1].file_path = <<"vendor/", "lib", ".go">>
    /\ an_changes[1].language = "go"
    /\ ~Sent(1)
    /\ Len(an_changes[1].hunks) = 1
    /\ an_changes[1].analysis = None
    /\ an_changes[2].file_path = <<"LOGO", ".PNG">>
    /\ an_changes[2].hunks = <<>>
    /\ Sent(3)
    /\ an_result[2].total_additions = 5
    /\ an_calls = <<<<"file", 3>>, <<"summary", 0>>>>

-----------------------------------------------------------------------------
(* Properties of parse_diff_hunks                                          *)

\* the header lines of the text, and the header line of the k-th hunk
HeaderLines == {i \in 1..Len(df_diff) : df_diff[i].header # None}

HeaderAt(k) ==
    CHOOSE i \in HeaderLines : Cardinality({j \in HeaderLines : j < i}) = k - 1

\* the lines of the text after the k-th header line, up to the next header
\* line or the end of the text
BodyLines(k) ==
    LET m == HeaderAt(k)
        later == {i \in HeaderLines : i > m}
        stop == IF later = {} THEN Len(df_diff) + 1
                ELSE CHOOSE i \in later : \A j \in later : i <= j
    IN  [n \in 1..(stop - m - 1) |-> df_diff[m + n].text]

\* a text without the empty lines at its two ends
RECURSIVE DropEmptyEnds(_)
DropEmptyEnds(lines) ==
    IF lines = <<>> THEN <<>>
    ELSE IF Head(lines) = <<>> THEN DropEmptyEnds(Tail(lines))
    ELSE IF lines[Len(lines)] = <<>>
         THEN DropEmptyEnds(SubSeq(lines, 1, Len(lines) - 1))
         ELSE lines

\* the number that one or two decimal digits write
Written(digits) ==
    LET D(c) == CHOOSE n \in 0..9 : <<"0", "1", "2", "3", "4", "5", "6", "7", "8", "9">>[n + 1] = c
    IN  IF Len(digits) = 1 THEN D(digits[1]) ELSE 10 * D(digits[1]) + D(digits[2])

\* C18: parse_diff_hunks returns one Hunk per header line of the text, in
\* the order of the text, and the empty sequence for a text that is empty
\* or has no header line; the body of each Hunk is the text between the
\* end of its header line and the start of the next header line (or the
\* end of the text), compared here up to the line breaks at its two ends.
C18_OneHunkPerHeader ==
    df_hunks # None =>
        LET hunks == df_hunks[1]
        IN  /\ Len(hunks) = Cardinality(HeaderLines)
            /\ HeaderLines = {} => hunks = <<>>
            /\ \A k \in 1..Len(hunks) :
                  /\ hunks[k].old_start = Written(df_diff[HeaderAt(k)].header[1].old_start)
                  /\ hunks[k].new_start = Written(df_diff[HeaderAt(k)].header[1].new_start)
                  /\ DropEmptyEnds(hunks[k].content) = DropEmptyEnds(BodyLines(k))

Marked(lines, sign) ==
    LET marked == SelectSeq(lines, LAMBDA line :
                      /\ Len(line) >= 1
                      /\ line[1] = sign
                      /\ ~(Len(line) >= 3 /\ line[2] = sign /\ line[3] = sign))
    IN  [n \in 1..Len(marked) |-> SubSeq(marked[n], 2, Len(marked[n]))]

\* C19: for every hunk, added_lines is the sequence, in body order, of the
\* body lines that start with "+" but not with "+++", without the leading
\* "+", and removed_lines the same for "-" and "---"; every other body
\* line, a context line in particular, is in neither list.
C19_AddedAndRemoved ==
    df_hunks # None =>
        \A k \in 1..Len(df_hunks[1]) :
            /\ df_hunks[1][k].added_lines = Marked(BodyLines(k), "+")
            /\ df_hunks[1][k].removed_lines = Marked(BodyLines(k), "-")

\* the lines occur in the text, in their order
OccurInOrder(lines, text) ==
    \E at \in [1..Len(lines) -> 1..Len(text)] :
        /\ \A i \in 1..Len(lines) : text[at[i]] = lines[i]
        /\ \A i, j \in 1..Len(lines) : i < j => at[i] < at[j]

\* C20: for every Hunk, the added lines prefixed with "+" and the removed
\* lines prefixed with "-" all occur among the lines of the original body
\* of the hunk, each class in the order it has there.
C20_RoundTrip ==
    df_hunks # None =>
        \A k \in 1..Len(df_hunks[1]) :
            LET hunk == df_hunks[1][k]
            IN  /\ OccurInOrder([n \in 1..Len(hunk.added_lines) |->
                                    <<"+">> \o hunk.added_lines[n]], BodyLines(k))
                /\ OccurInOrder([n \in 1..Len(hunk.removed_lines) |->
                                    <<"-">> \o hunk.removed_lines[n]], BodyLines(k))

\* C21: for every hunk header "@@ -a[,b] +c[,d] @@" the Hunk has old_start
\* a and new_start c; old_count is b when b is written and 1 when it is
\* omitted, new_count is d when d is written and 1 when it is omitted, a
\* written 0 stays 0, and each count is defaulted on its own.
C21_HeaderNumbers ==
    df_hunks # None =>
        \A k \in 1..Len(df_hunks[1]) :
            LET hunk == df_hunks[1][k]
                head == df_diff[HeaderAt(k)].header[1]
            IN  /\ hunk.old_start = Written(head.old_start)
                /\ hunk.new_start = Written(head.new_start)
                /\ hunk.old_count = IF head.old_count = None THEN 1
                                    ELSE Written(head.old_count[1])
                /\ hunk.new_count = IF head.new_count = None THEN 1
                                    ELSE Written(head.new_count[1])

C21_Witness ==
    /\ df_hunks # None
    /\ Len(df_hunks[1]) = 2
    /\ df_diff[HeaderAt(1)].header[1].old_count = Some(<<"0">>)
    /\ df_diff[HeaderAt(1)].header[1].new_count = None
    /\ df_hunks[1][1].old_count = 0
    /\ df_hunks[1][1].new_count = 1
    /\ df_diff[HeaderAt(2)].header[1].old_count = None
    /\ df_diff[HeaderAt(2)].header[1].new_count = Some(<<"2">>)
    /\ df_hunks[1][2].old_count = 1
    /\ df_hunks[1][2].new_count = 2
    /\ df_hunks[1][2].new_start = 7


-----------------------------------------------------------------------------
(* Properties of the capability calls of a run *)

\* C23: the Context node issues exactly one Context-Retrieval call for
\* every Change whose diff is non-empty and no Context-Retrieval call for a
\* Change whose diff is empty.
C23_CallsForNonEmptyDiffs ==
    (Truthy(state.analysis) /\ pc \in {"route_context", "generate_review",
                                       "route_review", "store_learning",
                                       "handle_error", "END", "returned"}) =>
        \A i \in 1..Len(Changes) :
            ctxCalls[i] = IF Changes[i].diff # "" THEN 1 ELSE 0

\* C27: within one run no capability call is repeated: at most one
\* Analysis call per file entry, at most one Context-Retrieval call per
\* Change, also when that call failed, exactly one Review-Generation call
\* by the Review node, and a second Review-Generation call only as the one
\* degraded attempt of the Error node.
C27_NoCallRepeated ==
    /\ analysisCalls <= Len(state.pr_data.files)
    /\ \A i \in DOMAIN ctxCalls : ctxCalls[i] <= 1
    /\ \A i \in DOMAIN tasks :
          tasks[i] \in {"inflight", "returned", "placeholder"} => ctxCalls[i] = 1
    /\ pc \in {"analyze", "route_analysis", "get_context", "gather",
               "route_context", "generate_review"} => reviewCalls = <<>>
    /\ pc \in {"route_review", "store_learning"} => Len(reviewCalls) = 1
    /\ Len(reviewCalls) <= 2
    /\ Len(reviewCalls) = 2 =>
          /\ reviewCalls[2] = ContextUnavailable
          /\ pc \in {"END", "returned"}
          /\ Len(state.errors) = 1

C27_Witness ==
    /\ pc = "returned"
    /\ Len(tasks) = 2
    /\ tasks[1] = "placeholder"
    /\ ctxCalls[1] = 1
    /\ tasks[2] = "returned"
    /\ Len(reviewCalls) = 1
    /\ Failed("Review generation failed")
    /\ analysisCalls = 2

\* some write of the Store-Learning node raised
WriteFailed == \E k \in 1..Len(writes) : writes[k].outcome = "raised"

\* C29: a failure of a Learning-Store write is swallowed: the
\* Store-Learning node ends with status completed, appends no error string
\* and leaves the Review Result as it was, and the run returns that Review
\* Result, the one it returns when every write succeeds.
C29_WriteFailureSwallowed ==
    [][/\ pc = "store_learning" =>
             /\ state'.status = "completed"
             /\ state'.errors = state.errors
             /\ state'.review = state.review
             /\ pc' = "END"
       /\ (pc = "END" /\ writes # <<>>) =>
             /\ result' = state.review
             /\ IsReviewResult(result')
             /\ state' = state]_vars

C29_Witness ==
    /\ pc = "returned"
    /\ WriteFailed
    /\ state.status = "completed"
    /\ state.errors = <<>>
    /\ result = state.review
    /\ result[1].comments # <<>>

\* C30: the Store-Learning node submits a Learning-Store write for a Change
\* iff some comment of the Review Result has that Change's file path, at
\* most one write per Change, with the feedback built from exactly the
\* matching comments, and it runs only on the happy path.
C30_WritePerCommentedChange ==
    /\ writes # <<>> => (pc \in {"END", "returned"} /\ state.errors = <<>>)
    /\ (pc \in {"END", "returned"} /\ state.status = "completed") =>
          \A i \in 1..Len(Changes) :
              LET matching == {n \in 1..Len(state.review[1].comments) :
                                  state.review[1].comments[n].file_path =
                                      Changes[i].file_path}
                  submitted == {k \in 1..Len(writes) :
                                   writes[k].file_path = Changes[i].file_path}
              IN  /\ Cardinality(submitted) = IF matching # {} THEN 1 ELSE 0
                  /\ \A k \in submitted :
                        /\ Len(writes[k].feedback) = Cardinality(matching)
                        /\ \A n \in 1..Len(writes[k].feedback) :
                              writes[k].feedback[n].file_path = Changes[i].file_path

-----------------------------------------------------------------------------
(* Properties of the assembled Review Result *)

\* the raw comments that are the first with their key
FirstOccurrences ==
    {i \in 1..Len(rw_raw) :
        \A j \in 1..(i - 1) : comment_key(rw_raw[j]) # comment_key(rw_raw[i])}

\* C28: the recommendation and the severity counts of a Review Result are
\* computed from the deduplicated comment list, not from the raw list: raw
\* comments with 4 warnings of which two are duplicates of each other give 3
\* warnings and the recommendation comment.
C28_AssessedAfterDedup ==
    rw_result # None =>
        LET n(sev) == Cardinality({i \in FirstOccurrences : rw_raw[i].severity = sev})
            stats  == rw_result[1].stats
        IN  /\ stats.critical = n("critical")
            /\ stats.warning = n("warning")
            /\ stats.suggestion = n("suggestion")
            /\ stats.total = Cardinality(FirstOccurrences)
            /\ rw_result[1].approval_recommendation =
                  IF n("critical") > 0 THEN "request_changes"
                  ELSE IF n("warning") > WarningLimit THEN "request_changes"
                  ELSE IF n("warning") > 0 THEN "comment"
                  ELSE "approve"

C28_Witness ==
    /\ rw_result # None
    /\ Len(rw_raw) = 4
    /\ \A i \in 1..4 : rw_raw[i].severity = "warning"
    /\ Cardinality(FirstOccurrences) = 3
    /\ rw_result[1].stats.warning = 3
    /\ rw_result[1].approval_recommendation = "comment"

-----------------------------------------------------------------------------
(* Frame properties of the nodes and of the routers *)

\* C31: once the Analyze node has completed no node changes the Analysis
\* Result, and no step of a run changes the input payload or the retry
\* counter, which is 0 throughout; a field that a node's partial update does
\* not name keeps its value: the routers and review_pr change nothing, the
\* Context node keeps the Review Result, the Review node keeps the context,
\* the Store-Learning node keeps context and Review Result, and the Error
\* node keeps the context.
C31_FrameOfNodes ==
    [][/\ state'.pr_data = state.pr_data
       /\ state.retry_count = 0
       /\ state'.retry_count = 0
       /\ pc # "analyze" => state'.analysis = state.analysis
       /\ pc \in {"route_analysis", "route_context", "route_review", "END"} =>
             state' = state
       /\ pc \in {"analyze", "get_context", "gather"} => state'.review = state.review
       /\ pc \in {"analyze", "generate_review", "store_learning", "handle_error"} =>
             state'.context = state.context
       /\ pc = "store_learning" => state'.review = state.review]_vars

C31_Witness ==
    /\ pc = "returned"
    /\ state.status = "completed"
    /\ Len(state.pr_data.files) = 2
    /\ state.analysis = Some(AnalysisOf(state.pr_data))
    /\ DOMAIN state.context = {1, 2}
    /\ Truthy(state.review)
    /\ state.retry_count = 0

\* two State Records agree on what a router may read
SameTags(s, t) ==
    /\ s.status = t.status
    /\ (s.analysis = None) = (t.analysis = None)
    /\ (s.review = None) = (t.review = None)

RouterOf(router, s) ==
    CASE router = "analysis" -> should_continue_after_analysis(s)
      [] router = "context"  -> should_continue_after_context(s)
      [] router = "review"   -> should_continue_after_review(s)

\* C32: a router changes no field of the State Record and invokes no
\* capability, and its decision is the one it takes for every State Record
\* with the same status and the same presence of Analysis Result and Review
\* Result, whatever the other fields hold.
C32_RoutersArePure ==
    [][/\ rt_in' = rt_in
       /\ <<reviewCalls, ctxCalls, writes, analysisCalls>>' =
             <<reviewCalls, ctxCalls, writes, analysisCalls>>
       /\ \A router \in DOMAIN rt_out' \ DOMAIN rt_out :
             \A other \in RouterStates :
                 SameTags(other, rt_in[1]) =>
                     RouterOf(router, other) = rt_out'[router]]_vars

C32_Witness ==
    /\ DOMAIN rt_out = {"analysis", "context", "review"}
    /\ rt_in[1].status = "reviewed"
    /\ Truthy(rt_in[1].analysis)
    /\ Truthy(rt_in[1].review)
    /\ rt_in[1].errors # <<>>
    /\ rt_in[1].context # <<>>
    /\ rt_out["review"] = "continue"
    /\ rt_out["context"] = "continue"

-----------------------------------------------------------------------------
(* Invariants of the error path *)

C35_AtMostOneError ==
    /\ Len(state.errors) <= 1
    /\ pc = "handle_error" => Len(state.errors) = 1
    /\ state.status = "failed" => Len(state.errors) = 1
    /\ state.status \in {"started", "analyzed", "context_retrieved",
                         "reviewed", "completed"} => state.errors = <<>>
    /\ state.status = "error" =>
          state.errors \in {<<"Analysis failed">>, <<"Review generation failed">>}

C35_Witness ==
    /\ pc = "END"
    /\ state.status = "failed"
    /\ state.errors = <<"Analysis failed">>
    /\ state.analysis = None
    /\ Len(state.pr_data.files) = 3

-----------------------------------------------------------------------------
(* Which duplicate survives, and which writes a failed write leaves *)

\* the raw comments that no earlier raw comment shares its key with
FirstWithKey == {i \in 1..Len(rw_raw) : \A j \in 1..(i - 1) : ~SameKey(rw_raw[j], rw_raw[i])}

\* C38: deduplication keeps, for each key, the first comment in input order
\* and keeps the kept comments in their input order; severity is not part
\* of the key, so a later comment with the key of an earlier one is dropped
\* even if it is critical, and counts neither in the severity counts nor in
\* the recommendation.
C38_FirstOfKeyIsKept ==
    /\ rw_unique # None =>
          /\ Len(rw_unique[1]) = Cardinality(FirstWithKey)
          /\ \A i \in FirstWithKey :
                rw_unique[1][Cardinality({j \in FirstWithKey : j <= i})] = rw_raw[i]
    /\ rw_result # None =>
          LET dropped  == (1..Len(rw_raw)) \ FirstWithKey
              critical == {i \in FirstWithKey : rw_raw[i].severity = "critical"}
              warning  == {i \in FirstWithKey : rw_raw[i].severity = "warning"}
          IN  /\ rw_result[1].comments = rw_unique[1]
              /\ rw_result[1].stats.critical = Cardinality(critical)
              /\ (critical = {} /\ Cardinality(warning) <= WarningLimit) =>
                    rw_result[1].approval_recommendation # "request_changes"

C38_Witness ==
    /\ rw_result # None
    /\ rw_raw = <<[BaseComment EXCEPT !.line_number = 20], BaseComment,
                  [BaseComment EXCEPT !.severity = "critical"]>>
    /\ rw_unique[1] = <<[BaseComment EXCEPT !.line_number = 20], BaseComment>>
    /\ rw_result[1].stats.critical = 0
    /\ rw_result[1].stats.warning = 2
    /\ rw_result[1].approval_recommendation = "comment"

\* C39: a Learning-Store write that raises ends the Store-Learning node at
\* once: it is the last write of the run, no write is attempted for the
\* Changes that come later in the change list, the writes submitted before
\* it stay submitted, and the status still becomes completed.
C39_FailedWriteEndsLoop ==
    writes # <<>> =>
        LET due == DueWrites(state.analysis[1], state.review[1])
        IN  /\ state.status = "completed"
            /\ Len(writes) <= Len(due)
            /\ \A k \in 1..Len(writes) :
                  /\ writes[k].file_path = due[k].file_path
                  /\ writes[k].feedback = due[k].feedback
                  /\ writes[k].outcome = "raised" => k = Len(writes)
            /\ ~WriteFailed => Len(writes) = Len(due)

C39_Witness ==
    /\ pc = "returned"
    /\ Len(writes) = 2
    /\ writes[1].outcome = "ack"
    /\ writes[2].outcome = "raised"
    /\ Len(DueWrites(state.analysis[1], state.review[1])) = 3
    /\ state.status = "completed"

-----------------------------------------------------------------------------
(* _detect_language as a pure function of the path.  The paths are made of *)
(* up to MaxPieces pieces; the word dockerfile, in three letter cases, is   *)
(* a piece of its own, so that it occurs at the start, in the middle and at *)
(* the end of a path, before and after an extension.                       *)

MaxPieces == 3

PiecePool ==
    {"src/", "app", "Dockerfile", "dockerfile", "DOCKERFILE", "_utils",
     ".prod", ".py", ".PY", ".md", ".xyz", "Makefile"}

InitLanguage ==
    /\ \E n \in 1..MaxPieces : lg_path \in [1..n -> PiecePool]
    /\ lg_language = None
    /\ TablesIdle
    /\ WorkflowIdle
    /\ ReviewerIdle
    /\ MergeIdle
    /\ AnalyzerIdle
    /\ DiffIdle
    /\ RunsIdle

classify ==
    /\ lg_language = None
    /\ lg_language' = Some(detect_language(lg_path))
    /\ UNCHANGED lg_path
    /\ UNCHANGED <<wfVars, rtVars, rvVars, rwVars, mcVars, anVars, dfVars, trVars>>

NextLanguage == classify

SpecLanguage == InitLanguage /\ [][NextLanguage]_vars

\* the path holds the word dockerfile in some letter case
NamesDockerfile(path) ==
    \E k \in 1..Len(path) : path[k] \in {"Dockerfile", "dockerfile", "DOCKERFILE"}

\* C33: a path that contains dockerfile in any letter case, anywhere, is
\* classified dockerfile whatever its extension (Dockerfile.prod, and also
\* dockerfile_utils.py); the rule comes before the suffix table, and a path
\* that matches neither the rule nor a suffix is classified unknown.
C33_DockerfileFirst ==
    lg_language # None =>
        LET last == lg_path[Len(lg_path)]
        IN  lg_language[1] =
               IF NamesDockerfile(lg_path) THEN "dockerfile"
               ELSE IF last \in {".py", ".PY"} THEN "python"
               ELSE IF last = ".md" THEN "markdown"
               ELSE "unknown"

C33_Witness ==
    /\ lg_path = <<"dockerfile", "_utils", ".py">>
    /\ lg_language = Some("dockerfile")

-----------------------------------------------------------------------------
(* Order of the calls of the Analyze stage *)

\* C36: the Analyze stage takes the file entries one after another in
\* payload order: at most one model call is in flight, the call for a file
\* starts only when every earlier file has its Change, the summary call
\* starts only when every file has its Change, and the Changes of the
\* Analysis Result are in the order of the files of the payload.
C36_OneCallAtATime ==
    /\ Cardinality(an_inflight) <= 1
    /\ \A call \in an_inflight :
          IF call[1] = "file"
          THEN Len(an_changes) = call[2] - 1
          ELSE Len(an_changes) = Len(an_files)
    /\ Len(an_changes) <= Len(an_files)
    /\ \A i \in 1..Len(an_changes) :
          /\ an_changes[i].file_path = an_files[i].filename
          /\ an_changes[i].additions = an_files[i].additions
    /\ \A m, n \in 1..Len(an_calls) :
          m < n => (an_calls[n][1] = "summary" \/
                    (an_calls[m][1] = "file" /\ an_calls[m][2] < an_calls[n][2]))
    /\ (an_result # None /\ an_result[1] = "returned") =>
          /\ Len(an_result[2].changes) = Len(an_files)
          /\ \A i \in 1..Len(an_files) :
                an_result[2].changes[i].file_path = an_files[i].filename

C36_Witness ==
    /\ an_result # None
    /\ an_result[1] = "returned"
    /\ an_calls = <<<<"file", 1>>, <<"file", 3>>, <<"summary", 0>>>>
    /\ an_result[2].changes[1].file_path = <<"src/", "app", ".py">>
    /\ an_result[2].changes[2].file_path = <<"README", ".md">>
    /\ an_result[2].changes[3].file_path = <<"src/", "app", ".py">>
    /\ an_result[2].changes[1].analysis # an_result[2].changes[3].analysis

-----------------------------------------------------------------------------
(* Two runs of review_pr on the one module-level orchestrator (main.py),   *)
(* each at its context node: the coroutines of the two runs interleave on  *)
(* the event loop.  A run has up to MaxRunFiles Changes.  The semaphore is  *)
(* a local of _context_node, so every execution creates and uses its own.  *)

MaxRunFiles == 4

Runs == {1, 2}

semaphore_of_instance(run) == 1

semaphore_of(run) == run

InitRuns ==
    /\ tr_changes \in [Runs -> 0..MaxRunFiles]
    /\ tr_pc = [run \in Runs |-> "get_context"]
    /\ tr_tasks = [run \in Runs |-> <<>>]
    /\ tr_semaphore = [key \in Runs |-> None]
    /\ TablesIdle
    /\ WorkflowIdle
    /\ ReviewerIdle
    /\ MergeIdle
    /\ AnalyzerIdle
    /\ DiffIdle
    /\ LanguageIdle

(* _context_node of a run up to the gather *)
run_context_node(run) ==
    /\ tr_pc[run] = "get_context"
    /\ IF tr_changes[run] = 0
       THEN /\ tr_pc' = [tr_pc EXCEPT ![run] = "route_context"]
            /\ UNCHANGED <<tr_tasks, tr_semaphore>>
       ELSE /\ tr_semaphore' = [tr_semaphore EXCEPT ![semaphore_of(run)] =
                                   Some(NewSemaphore(SemaphoreSlots))]
            /\ tr_tasks' = [tr_tasks EXCEPT ![run] =
                               [i \in 1..tr_changes[run] |-> "new"]]
            /\ tr_pc' = [tr_pc EXCEPT ![run] = "gather"]
    /\ UNCHANGED tr_changes
    /\ UNCHANGED <<wfVars, rtVars, rvVars, rwVars, mcVars, anVars, dfVars, lgVars>>

(* bounded_get_context of a run's coroutine i: takes a slot or queues *)
run_bounded_get_context(run, i) ==
    /\ tr_pc[run] = "gather"
    /\ tr_tasks[run][i] = "new"
    /\ \A j \in 1..(i - 1) : tr_tasks[run][j] # "new"
    /\ LET key == semaphore_of(run)
           sem == tr_semaphore[key][1]
       IN  IF locked(sem)
           THEN /\ tr_tasks' = [tr_tasks EXCEPT ![run][i] = "waiting"]
                /\ tr_semaphore' = [tr_semaphore EXCEPT ![key] =
                       Some([sem EXCEPT !.waiters = Append(@, <<run, i>>)])]
           ELSE /\ tr_tasks' = [tr_tasks EXCEPT ![run][i] = "inflight"]
                /\ tr_semaphore' = [tr_semaphore EXCEPT ![key] =
                       Some([sem EXCEPT !.value = @ - 1])]
    /\ UNCHANGED <<tr_changes, tr_pc>>
    /\ UNCHANGED <<wfVars, rtVars, rvVars, rwVars, mcVars, anVars, dfVars, lgVars>>

(* the call of a run's coroutine i returns or raises and its slot is       *)
(* released, which wakes the first waiter of that semaphore                *)
run_call_resolves(run, i, outcome) ==
    /\ tr_pc[run] = "gather"
    /\ tr_tasks[run][i] = "inflight"
    /\ LET key   == semaphore_of(run)
           sem   == tr_semaphore[key][1]
           sem2  == release(sem)
           woken == IF Len(sem2.waiters) < Len(sem.waiters)
                    THEN {Head(sem.waiters)} ELSE {}
       IN  /\ tr_tasks' = [r \in Runs |-> [j \in DOMAIN tr_tasks[r] |->
                              IF r = run /\ j = i THEN get_file_context(outcome)
                              ELSE IF <<r, j>> \in woken THEN "inflight"
                              ELSE tr_tasks[r][j]]]
           /\ tr_semaphore' = [tr_semaphore EXCEPT ![key] = Some(sem2)]
    /\ UNCHANGED <<tr_changes, tr_pc>>
    /\ UNCHANGED <<wfVars, rtVars, rvVars, rwVars, mcVars, anVars, dfVars, lgVars>>

run_call_returns(run, i) == run_call_resolves(run, i, "returns")

run_call_fails(run, i) == run_call_resolves(run, i, "raises")

(* asyncio.gather of a run returns when all its coroutines have a result   *)
run_gather(run) ==
    /\ tr_pc[run] = "gather"
    /\ gather_ready(tr_tasks[run])
    /\ tr_pc' = [tr_pc EXCEPT ![run] = "route_context"]
    /\ UNCHANGED <<tr_changes, tr_tasks, tr_semaphore>>
    /\ UNCHANGED <<wfVars, rtVars, rvVars, rwVars, mcVars, anVars, dfVars, lgVars>>

NextRuns ==
    \/ \E run \in Runs : run_context_node(run)
    \/ \E run \in Runs : \E i \in DOMAIN tr_tasks[run] : run_bounded_get_context(run, i)
    \/ \E run \in Runs : \E i \in DOMAIN tr_tasks[run] : run_call_returns(run, i)
    \/ \E run \in Runs : \E i \in DOMAIN tr_tasks[run] : run_call_fails(run, i)
    \/ \E run \in Runs : run_gather(run)

SpecRuns == InitRuns /\ [][NextRuns]_vars

\* the calls of a run that are in flight
InFlight(run) == Cardinality(HoldsSlot(tr_tasks[run]))

\* C37: the bound of 3 calls in flight is per run: every execution of the
\* Context node has a semaphore of its own, whose waiters are requests of
\* that run only, a request of a run waits only while 3 calls of its own
\* run are in flight, never because of the calls of the other run, and two
\* concurrent runs have up to 6 calls in flight together.
C37_BoundIsPerRun ==
    \A run \in Runs :
        /\ InFlight(run) <= SemaphoreSlots
        /\ tr_pc[run] = "gather" =>
              /\ tr_semaphore[run] # None
              /\ \A n \in 1..Len(tr_semaphore[run][1].waiters) :
                    tr_semaphore[run][1].waiters[n][1] = run
              /\ tr_semaphore[run][1].value = SemaphoreSlots - InFlight(run)
        /\ (\E i \in DOMAIN tr_tasks[run] : tr_tasks[run][i] = "waiting") =>
              InFlight(run) = SemaphoreSlots

C37_Witness ==
    /\ InFlight(1) + InFlight(2) = 2 * SemaphoreSlots
    /\ Len(tr_tasks[1]) = 4
    /\ Len(tr_tasks[2]) = 4
    /\ tr_tasks[1][4] = "waiting"
    /\ tr_tasks[2][4] = "waiting"
    /\ tr_semaphore[1] # tr_semaphore[2]

=============================================================================
